---- MODULE Spec2Model ----
(***************************************************************************)
(* A model of agent-mail (src/src/server.js, src/unnamed/part_003,         *)
(* src/src/db.js): the send path with its daily quota, and the webhook     *)
(* poller with its per-agent watermark.                                    *)
(*                                                                         *)
(* Node runs one handler continuation at a time; a handler gives up the    *)
(* thread only at an await.  Every action below is one such continuation:  *)
(* from the start of a handler (or the resolution of the awaited promise)  *)
(* to the next await (or the end of the handler).                          *)
(***************************************************************************)
EXTENDS Integers, Sequences, FiniteSets, Bags, TLC

\* ---------------------------------------------------------------- bounds
MaxReqs == 2      \* send requests issued in one run
MaxDay == 2       \* UTC calendar dates 1..MaxDay
MaxTime == 2      \* clock values (seconds) 1..MaxTime
MaxMsgs == 2      \* messages that arrive in the shared mailbox in one run
MaxInflight == 2  \* create, create-paid and pay/status requests awaiting a verification
MaxRcpt == 2      \* recipient addresses in the To header of a message
MaxText == 2      \* characters of a content given to encryptForAgent
MaxPieces == 3    \* pieces of a text given to extractCodes

\* ----------------------------------------------------- program constants
\* nacl.box.publicKeyLength, secretKeyLength, nonceLength, overheadLength
publicKeyLength == 32
secretKeyLength == 32
nonceLength == 24
overheadLength == 16
DailyLimit == 10  \* server.js:365  if (currentSends >= 10)
PollLimit == 5    \* server.js:401  fetchEmails(agent.mailbox_id, 5)
ImapWindow == 50  \* part_003:45    results.slice(-Math.min(50, results.length))

\* SQL NULL (JS null): dates, times and message ids are numbered from 1, and
\* agent names and URLs are strings that differ from "null".
NULL == 0
None == "null"
Agents == {"a1", "a2"}
Reqs == 1..MaxReqs
Days == 1..MaxDay

VARIABLES
    sends_today,     \* agents.sends_today, per agent
    last_send_date,  \* agents.last_send_date, per agent (NULL or a date)
    today,           \* the current UTC calendar date
    req,             \* the send requests: what each handler holds across its await
    resp,            \* the request answered last, with its answer
    smtpCalls,       \* history: sendEmail calls made for each agent on the date `today`
    webhook_url,     \* agents.webhook_url, per agent (None or a URL)
    last_email_id,   \* agents.last_email_id, per agent (NULL or a message id)
    last_check,      \* agents.last_check, per agent (NULL or a time)
    mailbox,         \* the shared INBOX: the messages in arrival order
    now,             \* the server's clock
    poll,            \* the running pollWebhooks calls: the locals of each
    sent,            \* history: webhook posts issued for each message (counted to 2)
    fetched,         \* history: the list the last fetch for each agent resolved with
    allFailed,       \* history: no post has succeeded yet for the agent being processed
    lost,            \* history: messages of an agent all of whose posts failed in a cycle
    lastPost,        \* history: the last axios.post call, its URL and its body
    public_key,      \* the encryption public key registered for each agent (None or a key)
    agentRows,       \* the rows of the agents table, when mailboxes are created at run time
    payments,        \* the payments table: the row of each reference that has one
    inflight,        \* the handlers awaiting verifyMoltbookKey or verifyPayment (a bag)
    reply,           \* the answer sent last by a registry or protected route
    created,         \* history: agent rows inserted by create-paid for each reference
    rcpt,            \* parsed.to.value of the message under the address match
    returned,        \* the mailboxes whose fetchEmails has pushed that message
    serverKeyPair,   \* crypto.js: the memoized server keypair (<<>> until first use)
    call             \* the last call of a pure function: its arguments and its outcome

sendVars == <<sends_today, last_send_date, today, req, resp, smtpCalls>>

watermarkVars == <<webhook_url, last_email_id, last_check, mailbox, now, poll, sent>>

histVars == <<fetched, allFailed, lost>>

pollVars == <<webhook_url, last_email_id, last_check, mailbox, now, poll, sent,
              fetched, allFailed, lost>>

postVars == <<lastPost, public_key>>

regVars == <<agentRows, payments, inflight, reply, created>>

addrVars == <<rcpt, returned>>

pureVars == <<serverKeyPair, call>>

vars == <<sends_today, last_send_date, today, req, resp, smtpCalls,
          webhook_url, last_email_id, last_check, mailbox, now, poll, sent,
          fetched, allFailed, lost, lastPost, public_key,
          agentRows, payments, inflight, reply, created, rcpt, returned,
          serverKeyPair, call>>

\* ------------------------------------------------- the registry's values
\* Moltbook API keys, and the Moltbook agent id each of them belongs to (two
\* keys of one account, and a key of another account).
MoltbookKeys == {"mk1", "mk2", "mk3"}
OwnerOf(key) == IF key = "mk3" THEN "o2" ELSE "o1"

\* uuidv4().slice(0, 8) and generateApiKey() are random: any value of the type.
MailboxIds == {"m1", "m2"}
ApiKeys == {"k1", "k2"}
Urls == {"u1"}

\* Payment references: head is reference.slice(0, 8), tail the rest of it.
Refs == {[head |-> "r1", tail |-> "x"], [head |-> "r1", tail |-> "y"],
         [head |-> "r2", tail |-> "x"]}
NoRef == [head |-> None, tail |-> None]

\* No row of the payments table has the reference.
NoRow == [status |-> None, used |-> 0]

\* An Authorization header: absent, or `<scheme> <credential>`.
NoHeader == [scheme |-> None, key |-> None]
Headers == {NoHeader} \cup [scheme : {"Basic", "Bearer"}, key : ApiKeys]

\* No route has answered yet.
NoReply == [op |-> None]

\* No webhook post has been made.
NoPost == [url |-> None]

\* The tables after initDb on a new database file, nothing in flight.
RegistryInit ==
    /\ agentRows = {}
    /\ payments = [ref \in {} |-> NoRow]
    /\ inflight = EmptyBag
    /\ reply = NoReply
    /\ created = EmptyBag

PostInit ==
    /\ lastPost = NoPost
    /\ public_key = [a \in Agents |-> None]

\* ------------------------------------------------- the address match
\* Strings are sequences of characters.  The mailbox_id of agent "a1" is a1.
Spell(a) == IF a = "a1" THEN <<"a", "1">> ELSE <<"a", "2">>

UpperCase == <<"A", "B", "C", "D", "E", "F", "G", "H", "I", "J", "K", "L", "M",
               "N", "O", "P", "Q", "R", "S", "T", "U", "V", "W", "X", "Y", "Z">>
LowerCase == <<"a", "b", "c", "d", "e", "f", "g", "h", "i", "j", "k", "l", "m",
               "n", "o", "p", "q", "r", "s", "t", "u", "v", "w", "x", "y", "z">>

\* String.prototype.toLowerCase and toUpperCase, character by character.
toLowerCase(str) ==
    [i \in 1..Len(str) |->
        IF \E u \in 1..Len(UpperCase) : UpperCase[u] = str[i]
        THEN LowerCase[CHOOSE u \in 1..Len(UpperCase) : UpperCase[u] = str[i]]
        ELSE str[i]]

toUpperCase(str) ==
    [i \in 1..Len(str) |->
        IF \E u \in 1..Len(LowerCase) : LowerCase[u] = str[i]
        THEN UpperCase[CHOOSE u \in 1..Len(LowerCase) : LowerCase[u] = str[i]]
        ELSE str[i]]

\* const BASE_EMAIL = 'kai@kdn.agency'
BASE_EMAIL == <<"k", "a", "i", "@", "k", "d", "n", ".", "a", "g", "e", "n", "c", "y">>

targetAddressNoSuffix(mailboxId) == BASE_EMAIL

\* const targetAddress = `kai+${mailboxId}@kdn.agency`
targetAddress(mailboxId) ==
    <<"k", "a", "i", "+">> \o mailboxId
        \o <<"@", "k", "d", "n", ".", "a", "g", "e", "n", "c", "y">>

\* The recipient addresses a To header can list, by how each is written
\* relative to the mailbox address of agent `of`.
AddressKinds == {"exact", "upper", "mixed", "prefixed", "suffixed", "longer",
                 "base", "group"}
Recipient == [kind : AddressKinds, of : Agents]

\* addr.address of a recipient; a group entry has no address (<<>> here).
address(r) ==
    LET own == targetAddress(Spell(r.of))
    IN  CASE r.kind = "exact" -> own
          [] r.kind = "upper" -> toUpperCase(own)
          [] r.kind = "mixed" -> <<"K">> \o Tail(own)
          [] r.kind = "prefixed" -> <<"x">> \o own
          [] r.kind = "suffixed" -> own \o <<".", "x">>
          [] r.kind = "longer" -> targetAddress(Spell(r.of) \o <<"1">>)
          [] r.kind = "base" -> BASE_EMAIL
          [] OTHER -> <<>>

includes(x, y) ==
    \E i \in 0..(Len(x) - Len(y)) : SubSeq(x, i + 1, i + Len(y)) = y

sameAddressIncludes(x, y) == x # <<>> /\ includes(toLowerCase(x), toLowerCase(y))

\* addr.address?.toLowerCase() === targetAddress.toLowerCase()
sameAddress(x, y) == x # <<>> /\ toLowerCase(x) = toLowerCase(y)

\* toAddresses.some(addr => ...): the match made on the parsed message.
someAddress(toAddresses, mailboxId) ==
    \E i \in 1..Len(toAddresses) :
        sameAddress(address(toAddresses[i]), targetAddress(mailboxId))

\* The To headers of at most MaxRcpt recipients.
ToHeaders == UNION {[1..n -> Recipient] : n \in 0..MaxRcpt}

\* fetchEmails(mailbox_id of a) parses the message: it is pushed or left out.
ParseFor(a) ==
    /\ returned[a] = None
    /\ returned' = [returned EXCEPT ![a] =
                      IF someAddress(rcpt, Spell(a)) THEN "pushed" ELSE "skipped"]
    /\ UNCHANGED rcpt

AddrInit ==
    /\ rcpt = <<>>
    /\ returned = [a \in Agents |-> None]

\* No keypair has been generated and no pure function has been called.
PureInit ==
    /\ serverKeyPair = <<>>
    /\ call = <<>>

\* ---------------------------------------------------------- the poller
\* setInterval(pollWebhooks, 30000) and setTimeout(pollWebhooks, 5000) start a
\* call whether or not an earlier one has returned: two calls can be running.
Cycles == {1, 2}
MsgIds == 1..MaxMsgs
Times == 1..MaxTime
\* A message without a Date header (parsed.date is undefined).
NoDate == 0
\* The addresses mail arrives for: kai+<mailbox_id>@kdn.agency of each agent.
Recipients == Agents

\* The locals of a call of pollWebhooks: agents holds the rows the for loop has
\* not finished (the first is the one being processed), newEmails the new
\* emails of that agent, latestEmail the id of emails[0], j the index of the post
\* awaited; failed and fetchErr (history) the agents for which a webhook
\* post, or the fetch, of this call has failed.
NoPoll == [pc |-> "idle", agents |-> <<>>, latestEmail |-> NULL,
           newEmails |-> <<>>, j |-> 0, failed |-> {}, fetchErr |-> {}]
\* No list: the agent's last fetch failed, or the last cycle left the agent out.
NoFetch == <<[id |-> NULL, received_at |-> NULL]>>

Min(x, y) == IF x <= y THEN x ELSE y
Max(x, y) == IF x >= y THEN x ELSE y

\* SELECT * FROM agents WHERE webhook_url IS NOT NULL: the rows, as copies.
AgentOrder == <<"a1", "a2">>
Row(a) == [id |-> a, webhook_url |-> webhook_url[a],
           last_email_id |-> last_email_id[a], last_check |-> last_check[a]]

SelectAgents ==
    LET with == SelectSeq(AgentOrder, LAMBDA a : webhook_url[a] # None)
    IN  [k \in 1..Len(with) |-> Row(with[k])]

\* addr.address?.toLowerCase() === targetAddress.toLowerCase()
isForMailbox(msg, mailboxId) == msg.to = mailboxId

\* The message object fetchEmails builds; a message without a Date header gets
\* the time of the fetch as its received_at.
Email(k, t) ==
    [id |-> k,
     received_at |-> IF mailbox[k].date = NoDate THEN t ELSE mailbox[k].date]

\* emails.sort((a, b) => new Date(b.received_at) - new Date(a.received_at)):
\* most recent first; the sort is stable and the order of the pushes is that
\* of the parsers' completions, so messages of one time come in any order.
SortedDesc(S) ==
    {q \in [1..Cardinality(S) -> S] :
        /\ \A x, y \in 1..Cardinality(S) : x # y => q[x] # q[y]
        /\ \A x \in 1..(Cardinality(S) - 1) : q[x].received_at >= q[x + 1].received_at}

Take(q, n) == SubSeq(q, 1, Min(n, Len(q)))

\* What fetchEmails resolves with when the messages `pushed` have been pushed
\* by the time of the fetch's 'end' event: sorted.slice(0, limit).
FetchedLists(pushed, limit, t) ==
    {Take(q, limit) : q \in SortedDesc({Email(k, t) : k \in pushed})}

\* The messages of the last 50 of the INBOX that are addressed to the mailbox.
Matched(mailboxId) ==
    LET toFetch == Max(1, Len(mailbox) - ImapWindow + 1)..Len(mailbox)
    IN  {k \in toFetch : isForMailbox(mailbox[k], mailboxId)}

\* fetchEmails(mailboxId, limit) at time t, when the connection succeeds: the
\* lists it can resolve with.  Each matched message is pushed when its parser
\* completes; a message whose parse throws, or completes after the fetch's
\* 'end' event has resolved the promise, is not in the list.
fetchEmails(mailboxId, limit, t) ==
    UNION {FetchedLists(pushed, limit, t) : pushed \in SUBSET Matched(mailboxId)}

\* The same when every parse completes in time.
fetchEmailsComplete(mailboxId, limit, t) ==
    FetchedLists(Matched(mailboxId), limit, t)

\* The filter of newEmails, on the agent row read at the start of the cycle.
\* last_check is NULL only together with last_email_id (new Date(0) otherwise).
\* (The variant compares the times only.)
isNewByTime(email, agent) ==
    IF agent.last_email_id = NULL THEN TRUE
    ELSE email.received_at > agent.last_check

isNew(email, agent) ==
    IF agent.last_email_id = NULL THEN TRUE
    ELSE /\ email.id # agent.last_email_id
         /\ email.received_at > agent.last_check

\* axios.post(agent.webhook_url, ...) is called for message id m.
Post(m) == [sent EXCEPT ![m] = Min(@ + 1, 2)]

\* The for loop over agents moves on: fetchEmails is called for the next agent,
\* or the call of pollWebhooks returns.  (The variant leaves the loop.)
NextAgentBreaks(p) == NoPoll

NextAgent(p) ==
    IF Len(p.agents) > 1
    THEN [p EXCEPT !.pc = "fetch", !.agents = Tail(p.agents), !.latestEmail = NULL,
                   !.newEmails = <<>>, !.j = 0]
    ELSE NoPoll

\* The timer fires: pollWebhooks reads the agents with a webhook and calls
\* fetchEmails for the first of them.  (Of two idle calls the first is taken.)
PollStart(c) ==
    /\ poll[c].pc = "idle"
    /\ \A d \in Cycles : d < c => poll[d].pc # "idle"
    /\ LET agents == SelectAgents
       IN  poll' = [poll EXCEPT ![c] =
                      IF agents = <<>> THEN NoPoll
                      ELSE [NoPoll EXCEPT !.pc = "fetch", !.agents = agents]]
    /\ UNCHANGED <<webhook_url, last_email_id, last_check, mailbox, now, sent>>
    /\ UNCHANGED <<sendVars, regVars, addrVars, pureVars>>

\* fetchEmails resolves with emails: the new emails are filtered out and the
\* first webhook post is issued; with no new email the loop moves on to the
\* next agent.
FetchResolved(c, emails) ==
    /\ poll[c].pc = "fetch"
    /\ LET p == poll[c]
           agent == Head(p.agents)
           newEmails == SelectSeq(emails, LAMBDA e : isNew(e, agent))
       IN  IF newEmails # <<>>
           THEN /\ poll' = [poll EXCEPT ![c] =
                              [p EXCEPT !.pc = "post", !.latestEmail = emails[1].id,
                                        !.newEmails = newEmails, !.j = 1]]
                /\ sent' = Post(newEmails[1].id)
           ELSE /\ poll' = [poll EXCEPT ![c] = NextAgent(p)]
                /\ UNCHANGED sent
    /\ UNCHANGED <<webhook_url, last_email_id, last_check, mailbox, now>>
    /\ UNCHANGED <<sendVars, regVars, addrVars, pureVars>>

FetchOk(c) ==
    /\ poll[c].pc = "fetch"
    /\ \E emails \in fetchEmails(Head(poll[c].agents).id, PollLimit, now) :
          FetchResolved(c, emails)

\* fetchEmails resolves with every matched message (no parse fails or is late).
FetchComplete(c) ==
    /\ poll[c].pc = "fetch"
    /\ \E emails \in fetchEmailsComplete(Head(poll[c].agents).id, PollLimit, now) :
          FetchResolved(c, emails)

\* catch (agentErr): the error is logged and the for loop goes on.  (The
\* variant lets the error reach the outer catch, which ends the cycle.)
FetchFailEscapes(c) ==
    /\ poll[c].pc = "fetch"
    /\ poll' = [poll EXCEPT ![c] = NoPoll]
    /\ UNCHANGED <<webhook_url, last_email_id, last_check, mailbox, now, sent>>
    /\ UNCHANGED <<sendVars, regVars, addrVars, pureVars>>

\* fetchEmails rejects (connection or search error): catch (agentErr) logs it
\* and the for loop goes on with the next agent.
FetchFail(c) ==
    /\ poll[c].pc = "fetch"
    /\ poll' = [poll EXCEPT ![c] =
                  NextAgent([poll[c] EXCEPT !.fetchErr = @ \cup {Head(poll[c].agents).id}])]
    /\ UNCHANGED <<webhook_url, last_email_id, last_check, mailbox, now, sent>>
    /\ UNCHANGED <<sendVars, regVars, addrVars, pureVars>>

\* (The variant has no try around axios.post: a failed post is caught by
\* catch (agentErr), which skips the agent's other posts and the UPDATE.)
PostDoneThrows(c, ok) ==
    /\ poll[c].pc = "post"
    /\ LET p == poll[c]
           agent == Head(p.agents)
       IN  IF ~ok
           THEN /\ poll' = [poll EXCEPT ![c] =
                              NextAgent([p EXCEPT !.failed = @ \cup {agent.id}])]
                /\ UNCHANGED <<last_email_id, last_check, sent>>
           ELSE IF p.j < Len(p.newEmails)
           THEN /\ poll' = [poll EXCEPT ![c] = [p EXCEPT !.j = p.j + 1]]
                /\ sent' = Post(p.newEmails[p.j + 1].id)
                /\ UNCHANGED <<last_email_id, last_check>>
           ELSE /\ last_email_id' = [last_email_id EXCEPT ![agent.id] = p.latestEmail]
                /\ last_check' = [last_check EXCEPT ![agent.id] = now]
                /\ poll' = [poll EXCEPT ![c] = NextAgent(p)]
                /\ UNCHANGED sent
    /\ UNCHANGED <<webhook_url, mailbox, now>>
    /\ UNCHANGED <<sendVars, regVars, addrVars, pureVars>>

\* The awaited axios.post settles (ok: a 2xx answer; otherwise an error answer
\* or the 10 s timeout, caught and logged).  The next post is issued; after the
\* last one the watermark is written and the loop moves on.
PostDone(c, ok) ==
    /\ poll[c].pc = "post"
    /\ LET p == poll[c]
           agent == Head(p.agents)
           q == IF ok THEN p ELSE [p EXCEPT !.failed = @ \cup {agent.id}]
       IN  IF p.j < Len(p.newEmails)
           THEN /\ poll' = [poll EXCEPT ![c] = [q EXCEPT !.j = p.j + 1]]
                /\ sent' = Post(p.newEmails[p.j + 1].id)
                /\ UNCHANGED <<last_email_id, last_check>>
           ELSE /\ last_email_id' = [last_email_id EXCEPT ![agent.id] = p.latestEmail]
                /\ last_check' = [last_check EXCEPT ![agent.id] = now]
                /\ poll' = [poll EXCEPT ![c] = NextAgent(q)]
                /\ UNCHANGED sent
    /\ UNCHANGED <<webhook_url, mailbox, now>>
    /\ UNCHANGED <<sendVars, regVars, addrVars, pureVars>>

\* PUT /api/mailbox/webhook with a well-formed URL, or with null or "" (which
\* writes NULL as DeleteWebhook does).
SetWebhook(a, url) ==
    /\ webhook_url' = [webhook_url EXCEPT ![a] = url]
    /\ UNCHANGED <<last_email_id, last_check, mailbox, now, poll, sent>>
    /\ UNCHANGED <<sendVars, regVars, addrVars, pureVars>>

\* DELETE /api/mailbox/webhook
DeleteWebhook(a) ==
    /\ webhook_url' = [webhook_url EXCEPT ![a] = None]
    /\ UNCHANGED <<last_email_id, last_check, mailbox, now, poll, sent>>
    /\ UNCHANGED <<sendVars, regVars, addrVars, pureVars>>

\* A message arrives in the shared INBOX; its Date header is the sender's.
Arrive(to, date) ==
    /\ Len(mailbox) < MaxMsgs
    /\ mailbox' = Append(mailbox, [to |-> to, date |-> date])
    /\ UNCHANGED <<webhook_url, last_email_id, last_check, now, poll, sent>>
    /\ UNCHANGED <<sendVars, regVars, addrVars, pureVars>>

\* A second passes.
Tick ==
    /\ now < MaxTime
    /\ now' = now + 1
    /\ UNCHANGED <<webhook_url, last_email_id, last_check, mailbox, poll, sent>>
    /\ UNCHANGED <<sendVars, regVars, addrVars, pureVars>>

\* ------------------------------------------------------------ send path
\* A send request before its handler has run.
NoReq == [phase |-> "new", agent |-> None, kind |-> None, input |-> None,
          sendCount |-> 0, lastSendDate |-> NULL, currentSends |-> 0, date |-> 0,
          status |-> 0, sends_remaining |-> -1, resets_at |-> None,
          transport |-> None, solo |-> TRUE]

\* A request whose handler has answered: its answer is in resp.
Answered == [NoReq EXCEPT !.phase = "done"]

\* The quota columns at the start of a run: the column default (0, NULL), or
\* what earlier accepted sends wrote: a count (the first send of a day, the
\* last one below the limit, the limit) and the date of that send.
InitCounts == {1, DailyLimit - 1, DailyLimit}

QuotaRows(d) ==
    {<<0, NULL>>} \cup {<<n, e>> : n \in InitCounts, e \in 1..d}

\* const currentSends = (lastSendDate === today) ? sendCount : 0;
currentSendsNoReset(sendCount, lastSendDate, d) == sendCount

currentSends(sendCount, lastSendDate, d) ==
    IF lastSendDate = d THEN sendCount ELSE 0

\* if (currentSends >= 10) return res.status(429)
LimitReachedOffByOne(n) == n > DailyLimit

LimitReached(n) == n >= DailyLimit

\* resets_at: `${today}T23:59:59Z`
resetsAtNextDay(d) == [date |-> d + 1, time |-> "23:59:59Z"]

resetsAt(d) == [date |-> d, time |-> "23:59:59Z"]

\* The keys of EMAIL_TEMPLATES.
EMAIL_TEMPLATES == {"verification_request", "introduction", "follow_up"}

\* The JSON bodies of the send requests: every required field present or
\* absent (None: absent or empty); and of the send-template requests: with or
\* without a recipient, and no template id, the id of a template, of no
\* template, or a name that EMAIL_TEMPLATES inherits from Object.prototype.
Bodies(kind) ==
    IF kind = "send"
    THEN {[to |-> t, subject |-> s, body |-> b, template_id |-> None] :
             t \in {None, "to"}, s \in {None, "subject"}, b \in {None, "body"}}
    ELSE {[to |-> t, subject |-> None, body |-> None, template_id |-> id] :
             t \in {None, "to"},
             id \in {None, "introduction", "nonexistent_template", "constructor"}}

\* The status a handler answers before it reads the quota columns, 0 when it
\* goes on to the limit check: 400 for a missing field and for a template id
\* with no entry; for an inherited name EMAIL_TEMPLATES[template_id] is a
\* function (truthy, with no subject), fillTemplate throws on
\* template.subject.replace and the catch block answers 500.
RefusalNone(kind, b) == 0

Refusal(kind, b) ==
    IF kind = "send"
    THEN IF b.to = None \/ b.subject = None \/ b.body = None THEN 400 ELSE 0
    ELSE IF b.to = None \/ b.template_id = None THEN 400
    ELSE IF b.template_id \in EMAIL_TEMPLATES THEN 0
    ELSE IF b.template_id = "constructor" THEN 500
    ELSE 400

\* The requests of agent a whose sendEmail call has not yet returned.
InFlight(a) == {r \in Reqs : req[r].phase = "sending" /\ req[r].agent = a}

\* POST /api/mailbox/send and POST /api/mailbox/send-template, from authMiddleware
\* to the await of sendEmail: the agent row is read once (req.agent), the fields
\* are validated, the limit is checked on the row read, and sendEmail is called.
SendBegin(r, a, kind, b) ==
    /\ req[r].phase = "new"
    /\ \A q \in Reqs : q < r => req[q].phase # "new"
    /\ LET sendCount == sends_today[a]
           lastSendDate == last_send_date[a]
           cs == currentSends(sendCount, lastSendDate, today)
           early == [NoReq EXCEPT !.agent = a, !.kind = kind, !.input = b,
                                  !.phase = "done"]
           base == [early EXCEPT !.date = today, !.sendCount = sendCount,
                                 !.lastSendDate = lastSendDate]
       IN  IF Refusal(kind, b) # 0
           THEN /\ resp' = [early EXCEPT !.status = Refusal(kind, b)]
                /\ req' = [req EXCEPT ![r] = Answered]
                /\ UNCHANGED smtpCalls
           ELSE IF LimitReached(cs)
           THEN /\ resp' = [base EXCEPT !.status = 429, !.currentSends = cs,
                                        !.resets_at = resetsAt(today)]
                /\ req' = [req EXCEPT ![r] = Answered]
                /\ UNCHANGED smtpCalls
           ELSE /\ req' = [q \in Reqs |->
                              IF q = r
                              THEN [base EXCEPT !.phase = "sending", !.currentSends = cs,
                                                !.solo = (InFlight(a) = {})]
                              ELSE IF q \in InFlight(a)
                              THEN [req[q] EXCEPT !.solo = FALSE]
                              ELSE req[q]]
                /\ smtpCalls' = [smtpCalls EXCEPT ![a] = @ + 1]
                /\ UNCHANGED resp
    /\ UNCHANGED <<sends_today, last_send_date, today>>
    /\ UNCHANGED <<pollVars, postVars, regVars, addrVars, pureVars>>

\* sendEmail awaits transporter.sendMail without a try: it resolves when the
\* transporter resolves ("resolved") and rejects with the transporter's error
\* when it rejects ("rejected").
sendEmailSwallows(settled) == "resolved"

sendEmail(settled) == settled

\* The continuation after `await sendEmail(...)`: on success the counter is
\* written from the values computed before the await and the request answers
\* 200; a rejected promise goes to the catch block, which answers 500.
SendDone(r, settled) ==
    /\ req[r].phase = "sending"
    /\ LET a == req[r].agent
           n == req[r].currentSends + 1
           answer == [req[r] EXCEPT !.phase = "done", !.transport = settled]
       IN  IF sendEmail(settled) = "resolved"
           THEN /\ sends_today' = [sends_today EXCEPT ![a] = n]
                /\ last_send_date' = [last_send_date EXCEPT ![a] = req[r].date]
                /\ resp' = [answer EXCEPT !.status = 200,
                                          !.sends_remaining = DailyLimit - n]
           ELSE /\ resp' = [answer EXCEPT !.status = 500]
                /\ UNCHANGED <<sends_today, last_send_date>>
    /\ req' = [req EXCEPT ![r] = Answered]
    /\ UNCHANGED <<today, smtpCalls>>
    /\ UNCHANGED <<pollVars, postVars, regVars, addrVars, pureVars>>

\* Midnight UTC: new Date().toISOString().slice(0, 10) gives the next date.
\* Nothing runs at midnight.  (The variant has a job that clears the counters.)
NewDayResets ==
    /\ today < MaxDay
    /\ today' = today + 1
    /\ smtpCalls' = [a \in Agents |-> 0]
    /\ sends_today' = [a \in Agents |-> 0]
    /\ UNCHANGED <<last_send_date, req, resp>>
    /\ UNCHANGED <<pollVars, postVars, regVars, addrVars, pureVars>>

NewDay ==
    /\ today < MaxDay
    /\ today' = today + 1
    /\ smtpCalls' = [a \in Agents |-> 0]
    /\ UNCHANGED <<sends_today, last_send_date, req, resp>>
    /\ UNCHANGED <<pollVars, postVars, regVars, addrVars, pureVars>>

\* The agents table after initDb and two mailbox creations; no send request
\* is made and none is answered.
QuotaInit ==
    /\ today = 1
    /\ sends_today = [a \in Agents |-> 0]
    /\ last_send_date = [a \in Agents |-> NULL]
    /\ smtpCalls = [a \in Agents |-> 0]
    /\ req = <<>>
    /\ resp = <<>>

WatermarkInit ==
    /\ webhook_url = [a \in Agents |-> None]
    /\ last_email_id = [a \in Agents |-> NULL]
    /\ last_check = [a \in Agents |-> NULL]
    /\ mailbox = <<>>
    /\ now = 1
    /\ poll = [c \in Cycles |-> NoPoll]
    /\ sent = [m \in MsgIds |-> 0]
    /\ fetched = [a \in Agents |-> NoFetch]
    /\ allFailed = FALSE
    /\ lost = {}

SendInit ==
    /\ WatermarkInit /\ PostInit /\ RegistryInit /\ AddrInit /\ PureInit
    /\ today = 1
    /\ \E rows \in [Agents -> QuotaRows(today)] :
          /\ sends_today = [a \in Agents |-> rows[a][1]]
          /\ last_send_date = [a \in Agents |-> rows[a][2]]
    /\ smtpCalls = [a \in Agents |->
                      IF last_send_date[a] = today THEN sends_today[a] ELSE 0]
    /\ req = [r \in Reqs |-> NoReq]
    /\ resp = NoReq

PollInit == QuotaInit /\ WatermarkInit /\ PostInit /\ RegistryInit /\ AddrInit /\ PureInit

\* The steps of the server and of its surroundings, the timer starting a call
\* of pollWebhooks only when the earlier one has returned.
PollNext ==
    \/ PollStart(1) /\ UNCHANGED <<histVars, postVars>>
    \/ FetchOk(1) /\ UNCHANGED <<histVars, postVars>>
    \/ FetchFail(1) /\ UNCHANGED <<histVars, postVars>>
    \/ \E ok \in BOOLEAN : PostDone(1, ok) /\ UNCHANGED <<histVars, postVars>>
    \/ \E a \in Agents, url \in Urls : SetWebhook(a, url) /\ UNCHANGED <<histVars, postVars>>
    \/ \E a \in Agents : DeleteWebhook(a) /\ UNCHANGED <<histVars, postVars>>
    \/ \E to \in Recipients, date \in Times \cup {NoDate} :
          Arrive(to, date) /\ UNCHANGED <<histVars, postVars>>
    \/ Tick /\ UNCHANGED <<histVars, postVars>>

PollSpec == PollInit /\ [][PollNext]_vars

\* The same steps, with the history of the fetched lists and of the failed posts.
HistNext ==
    \/ /\ PollStart(1)
       /\ fetched' = [a \in Agents |->
                        IF webhook_url[a] # None THEN fetched[a] ELSE NoFetch]
       /\ UNCHANGED <<allFailed, lost, postVars>>
    \/ /\ poll[1].pc = "fetch"
       /\ \E emails \in fetchEmails(Head(poll[1].agents).id, PollLimit, now) :
             /\ FetchResolved(1, emails)
             /\ fetched' = [fetched EXCEPT ![Head(poll[1].agents).id] = emails]
       /\ allFailed' = (poll'[1].pc = "post")
       /\ UNCHANGED <<lost, postVars>>
    \/ /\ FetchFail(1)
       /\ fetched' = [fetched EXCEPT ![Head(poll[1].agents).id] = NoFetch]
       /\ UNCHANGED <<allFailed, lost, postVars>>
    \/ \E ok \in BOOLEAN :
          /\ PostDone(1, ok)
          /\ LET p == poll[1]
                 last == p.j = Len(p.newEmails)
             IN  /\ allFailed' = (allFailed /\ ~ok /\ ~last)
                 /\ lost' = IF last /\ allFailed /\ ~ok
                            THEN lost \cup {p.newEmails[k].id : k \in 1..Len(p.newEmails)}
                            ELSE lost
          /\ UNCHANGED <<fetched, postVars>>
    \/ \E a \in Agents, url \in Urls : SetWebhook(a, url) /\ UNCHANGED <<histVars, postVars>>
    \/ \E a \in Agents : DeleteWebhook(a) /\ UNCHANGED <<histVars, postVars>>
    \/ \E to \in Recipients, date \in Times \cup {NoDate} :
          Arrive(to, date) /\ UNCHANGED <<histVars, postVars>>
    \/ Tick /\ UNCHANGED <<histVars, postVars>>

HistSpec == PollInit /\ [][HistNext]_vars

\* The poller with collaborators that never fail: every fetch resolves with
\* all matched messages, and no webhook is removed.  The interval timer keeps
\* firing, a fetch resolves, and a post settles within its 10 s timeout.
ReliableNext ==
    \/ PollStart(1) /\ UNCHANGED <<histVars, postVars>>
    \/ FetchComplete(1) /\ UNCHANGED <<histVars, postVars>>
    \/ \E ok \in BOOLEAN : PostDone(1, ok) /\ UNCHANGED <<histVars, postVars>>
    \/ \E a \in Agents : SetWebhook(a, "u1") /\ UNCHANGED <<histVars, postVars>>
    \/ \E to \in Recipients, date \in Times \cup {NoDate} :
          Arrive(to, date) /\ UNCHANGED <<histVars, postVars>>
    \/ Tick /\ UNCHANGED <<histVars, postVars>>

FairPollSpec ==
    /\ PollInit
    /\ [][ReliableNext]_vars
    /\ WF_vars(PollStart(1) /\ UNCHANGED <<histVars, postVars>>)
    /\ WF_vars(FetchComplete(1) /\ UNCHANGED <<histVars, postVars>>)
    /\ WF_vars(\E ok \in BOOLEAN : PostDone(1, ok) /\ UNCHANGED <<histVars, postVars>>)

\* The timers as main sets them: setInterval and setTimeout call pollWebhooks
\* when their time has come, whether or not an earlier call has returned (a
\* call lasts as long as its fetches and its posts, 10 s at most per post).
\* Two calls at most are in progress here.
OverlapNext ==
    \/ \E c \in Cycles : PollStart(c) /\ UNCHANGED <<histVars, postVars>>
    \/ \E c \in Cycles : FetchOk(c) /\ UNCHANGED <<histVars, postVars>>
    \/ \E c \in Cycles : FetchFail(c) /\ UNCHANGED <<histVars, postVars>>
    \/ \E c \in Cycles, ok \in BOOLEAN : PostDone(c, ok) /\ UNCHANGED <<histVars, postVars>>
    \/ \E a \in Agents : SetWebhook(a, "u1") /\ UNCHANGED <<histVars, postVars>>
    \/ \E to \in Recipients, date \in Times \cup {NoDate} :
          Arrive(to, date) /\ UNCHANGED <<histVars, postVars>>
    \/ Tick /\ UNCHANGED <<histVars, postVars>>

OverlapSpec == PollInit /\ [][OverlapNext]_vars

\* One call of pollWebhooks at a time, with fetches and posts that fail or
\* not, mail arriving and webhooks being registered.  Every await of a call
\* settles: fetchEmails resolves or rejects, and a post succeeds or fails
\* within its 10 s timeout.
CycleNext ==
    \/ PollStart(1) /\ UNCHANGED <<histVars, postVars>>
    \/ FetchOk(1) /\ UNCHANGED <<histVars, postVars>>
    \/ FetchFail(1) /\ UNCHANGED <<histVars, postVars>>
    \/ \E ok \in BOOLEAN : PostDone(1, ok) /\ UNCHANGED <<histVars, postVars>>
    \/ \E a \in Agents : SetWebhook(a, "u1") /\ UNCHANGED <<histVars, postVars>>
    \/ \E to \in Recipients : Arrive(to, NoDate) /\ UNCHANGED <<histVars, postVars>>

CycleSpec ==
    /\ PollInit
    /\ [][CycleNext]_vars
    /\ WF_vars((FetchOk(1) \/ FetchFail(1)) /\ UNCHANGED <<histVars, postVars>>)
    /\ WF_vars(\E ok \in BOOLEAN : PostDone(1, ok) /\ UNCHANGED <<histVars, postVars>>)

SendNext ==
    \/ \E r \in Reqs, a \in Agents, kind \in {"send", "template"} :
          \E b \in Bodies(kind) : SendBegin(r, a, kind, b)
    \/ \E r \in Reqs, settled \in {"resolved", "rejected"} : SendDone(r, settled)
    \/ NewDay

SendSpec == SendInit /\ [][SendNext]_vars

\* The subject and the body of message k as parsed: text readable by anyone
\* (key None; a ciphertext names the public key that it was encrypted for).
Plain(k) == [text |-> k, key |-> None]

\* The arguments of axios.post for an email of the agent row being processed:
\* the URL, and the body { event, mailbox_id, email: { id, to, subject, body,
\* received_at } } (email.from is, like email.to, a field of the message).
Envelope(agent, email) ==
    [url |-> agent.webhook_url, event |-> "email.received",
     mailbox_id |-> agent.id, id |-> email.id, to |-> mailbox[email.id].to,
     subject |-> Plain(email.id), body |-> Plain(email.id),
     received_at |-> email.received_at]

\* The step of call c has issued a webhook post.
Posted(c) == poll'[c].pc = "post" /\ poll'[c] # poll[c]

RecordPost(c) ==
    lastPost' = IF Posted(c)
                THEN Envelope(Head(poll'[c].agents), poll'[c].newEmails[poll'[c].j])
                ELSE lastPost

\* PUT and DELETE /api/encryption/key: the agent registers or removes its
\* encryption public key.
SetEncryptionKey(a, key) ==
    /\ public_key' = [public_key EXCEPT ![a] = key]
    /\ UNCHANGED <<sendVars, regVars, addrVars, pureVars, watermarkVars>>

PayloadNext ==
    \/ PollStart(1) /\ UNCHANGED <<histVars, postVars>>
    \/ FetchOk(1) /\ RecordPost(1) /\ UNCHANGED <<histVars, public_key>>
    \/ FetchFail(1) /\ UNCHANGED <<histVars, postVars>>
    \/ \E ok \in BOOLEAN : PostDone(1, ok) /\ RecordPost(1) /\ UNCHANGED <<histVars, public_key>>
    \/ \E a \in Agents, url \in Urls : SetWebhook(a, url) /\ UNCHANGED <<histVars, postVars>>
    \/ \E a \in Agents : DeleteWebhook(a) /\ UNCHANGED <<histVars, postVars>>
    \/ \E to \in Recipients, date \in Times \cup {NoDate} :
          Arrive(to, date) /\ UNCHANGED <<histVars, postVars>>
    \/ Tick /\ UNCHANGED <<histVars, postVars>>
    \/ \E a \in Agents, key \in {"pk", None} :
          SetEncryptionKey(a, key) /\ UNCHANGED <<histVars, lastPost>>

PayloadSpec == PollInit /\ [][PayloadNext]_vars

\* One message with any To header; the fetch of every mailbox parses it.
AddrSpecInit ==
    /\ QuotaInit /\ WatermarkInit /\ PostInit /\ RegistryInit /\ PureInit
    /\ rcpt \in ToHeaders
    /\ returned = [a \in Agents |-> None]

AddrNext ==
    \E a \in Agents :
        ParseFor(a) /\ UNCHANGED <<sendVars, pollVars, postVars, regVars, pureVars>>

AddrSpec == AddrSpecInit /\ [][AddrNext]_vars

\* ------------------------------------------------------- the registry
\* What the registry routes leave alone.
regFrame == <<sendVars, pollVars, postVars, addrVars, pureVars>>

\* An answer: the route, the HTTP status (0: the handler has gone on to a mail
\* collaborator) and the fields of the body; history: the Authorization header
\* of the request and the webhook_url of its body, what verifyPayment settled
\* with, and whether authMiddleware has passed the request on to a handler that
\* calls fetchEmails or sendEmail.
Reply(op, status) ==
    [op |-> op, status |-> status, mailbox_id |-> None, api_key |-> None,
     webhook_url |-> None, entered |-> FALSE, header |-> NoHeader,
     body |-> None, outcome |-> None]

\* The row INSERT INTO agents writes (the id column is a whole uuidv4(); the
\* email column is `kai+${mailboxId}@kdn.agency`, one to one with mailbox_id).
AgentRow(moltbook_id, mailboxId, apiKey, paid) ==
    [moltbook_id |-> moltbook_id, mailbox_id |-> mailboxId,
     email |-> <<"kai+", mailboxId, "@kdn.agency">>, api_key |-> apiKey,
     webhook_url |-> None, paid |-> paid]

ConflictsNoMoltbookId(row) ==
    \E r \in agentRows : r.mailbox_id = row.mailbox_id \/ r.email = row.email
                            \/ r.api_key = row.api_key

ConflictsNoMailboxId(row) ==
    \E r \in agentRows : r.moltbook_id = row.moltbook_id \/ r.api_key = row.api_key

\* moltbook_id TEXT UNIQUE, mailbox_id TEXT UNIQUE, email TEXT UNIQUE,
\* api_key TEXT UNIQUE: the INSERT throws when a row has one of the values.
Conflicts(row) ==
    \E r \in agentRows : \/ r.moltbook_id = row.moltbook_id
                         \/ r.mailbox_id = row.mailbox_id
                         \/ r.email = row.email
                         \/ r.api_key = row.api_key

\* SELECT * FROM payments WHERE reference = ?
SelectPayment(ref) == IF ref \in DOMAIN payments THEN payments[ref] ELSE NoRow

\* `solana-${reference.slice(0,8)}`
SolanaId(ref) == "solana-" \o ref.head

\* POST /api/mailbox/create up to await verifyMoltbookKey.
CreateBegin(key) ==
    /\ IF key = None
       THEN reply' = Reply("create", 400) /\ UNCHANGED inflight
       ELSE /\ BagCardinality(inflight) < MaxInflight
            /\ inflight' = inflight (+) SetToBag({[op |-> "create", key |-> key, ref |-> NoRef]})
            /\ UNCHANGED reply
    /\ UNCHANGED <<agentRows, payments, created, regFrame>>

\* POST /api/mailbox/create after verifyMoltbookKey has resolved, with the
\* Moltbook agent of the key (valid) or with null.
CreateVerified(q, valid) ==
    /\ BagIn(q, inflight) /\ q.op = "create"
    /\ inflight' = inflight (-) SetToBag({q})
    /\ LET id == OwnerOf(q.key)
           existing == {r \in agentRows : r.moltbook_id = id}
       IN  IF ~valid
           THEN reply' = Reply("create", 401) /\ UNCHANGED agentRows
           ELSE IF existing # {}
           THEN /\ \E r \in existing :
                     reply' = [Reply("create", 200) EXCEPT
                                 !.mailbox_id = r.mailbox_id, !.api_key = r.api_key]
                /\ UNCHANGED agentRows
           ELSE \E mailboxId \in MailboxIds, apiKey \in ApiKeys :
                   LET row == AgentRow(id, mailboxId, apiKey, 0)
                   IN  IF Conflicts(row)
                       THEN reply' = Reply("create", 500) /\ UNCHANGED agentRows
                       ELSE /\ agentRows' = agentRows \cup {row}
                            /\ reply' = [Reply("create", 200) EXCEPT
                                           !.mailbox_id = mailboxId, !.api_key = apiKey]
    /\ UNCHANGED <<payments, created, regFrame>>

PayRequestReplace(kind, ref) ==
    /\ IF kind # "ok"
       THEN reply' = Reply("pay-request", 400) /\ UNCHANGED payments
       ELSE /\ payments' = (ref :> [status |-> "pending", used |-> 0]) @@ payments
            /\ reply' = Reply("pay-request", 200)
    /\ UNCHANGED <<agentRows, inflight, created, regFrame>>

\* POST /api/pay/request: the type is missing, unknown to
\* createPaymentRequest (which throws), or ok; ref is the reference that
\* createPaymentRequest returns.  reference is the PRIMARY KEY of payments.
PayRequest(kind, ref) ==
    /\ IF kind # "ok" \/ SelectPayment(ref) # NoRow
       THEN reply' = Reply("pay-request", 400) /\ UNCHANGED payments
       ELSE /\ payments' = payments @@ (ref :> [status |-> "pending", used |-> 0])
            /\ reply' = Reply("pay-request", 200)
    /\ UNCHANGED <<agentRows, inflight, created, regFrame>>

\* GET /api/pay/status/:reference up to await verifyPayment.
StatusBegin(ref) ==
    /\ BagCardinality(inflight) < MaxInflight
    /\ inflight' = inflight (+) SetToBag({[op |-> "status", key |-> None, ref |-> ref]})
    /\ UNCHANGED <<agentRows, payments, reply, created, regFrame>>

\* GET /api/pay/status/:reference after verifyPayment has settled: with
\* verified true or false, or with an error.
StatusVerified(q, outcome) ==
    LET Ro(op, status) == [Reply(op, status) EXCEPT !.outcome = outcome] IN
    /\ BagIn(q, inflight) /\ q.op = "status"
    /\ inflight' = inflight (-) SetToBag({q})
    /\ LET ref == q.ref
       IN  CASE outcome = "error" ->
                  reply' = Ro("status", 500) /\ UNCHANGED payments
             [] outcome = "verified" ->
                  /\ payments' = IF ref \in DOMAIN payments
                                  THEN [payments EXCEPT ![ref].status = "confirmed"]
                                  ELSE payments
                  /\ reply' = Ro("status", 200)
             [] OTHER -> reply' = Ro("status", 200) /\ UNCHANGED payments
    /\ UNCHANGED <<agentRows, created, regFrame>>

\* POST /api/mailbox/create-paid up to await verifyPayment.
CreatePaidBegin(ref) ==
    /\ IF ref = NoRef
       THEN reply' = Reply("create-paid", 400) /\ UNCHANGED inflight
       ELSE /\ BagCardinality(inflight) < MaxInflight
            /\ inflight' = inflight (+) SetToBag({[op |-> "create-paid", key |-> None, ref |-> ref]})
            /\ UNCHANGED reply
    /\ UNCHANGED <<agentRows, payments, created, regFrame>>

NotConfirmedNever(outcome) == FALSE

\* if (!status.verified)
NotConfirmed(outcome) == outcome # "verified"

\* POST /api/mailbox/create-paid after verifyPayment has settled.
CreatePaidVerified(q, outcome) ==
    LET Ro(op, status) == [Reply(op, status) EXCEPT !.outcome = outcome] IN
    /\ BagIn(q, inflight) /\ q.op = "create-paid"
    /\ inflight' = inflight (-) SetToBag({q})
    /\ LET ref == q.ref
           payment == SelectPayment(ref)
       IN  CASE outcome = "error" ->
                  /\ reply' = Ro("create-paid", 500)
                  /\ UNCHANGED <<agentRows, payments, created>>
             [] NotConfirmed(outcome) ->
                  /\ reply' = Ro("create-paid", 402)
                  /\ UNCHANGED <<agentRows, payments, created>>
             [] OTHER ->
                  IF payment.used = 1
                  THEN /\ reply' = Ro("create-paid", 400)
                       /\ UNCHANGED <<agentRows, payments, created>>
                  ELSE \E mailboxId \in MailboxIds, apiKey \in ApiKeys :
                          LET row == AgentRow(SolanaId(ref), mailboxId, apiKey, 1)
                          IN  IF Conflicts(row)
                              THEN /\ reply' = Ro("create-paid", 500)
                                   /\ UNCHANGED <<agentRows, payments, created>>
                              ELSE /\ agentRows' = agentRows \cup {row}
                                   /\ payments' = IF ref \in DOMAIN payments
                                                   THEN [payments EXCEPT ![ref].used = 1]
                                                   ELSE payments
                                   /\ created' = IF CopiesIn(ref, created) < 2
                                                  THEN created (+) SetToBag({ref})
                                                  ELSE created
                                   /\ reply' = [Ro("create-paid", 200) EXCEPT
                                                  !.mailbox_id = mailboxId,
                                                  !.api_key = apiKey]
    /\ UNCHANGED regFrame

\* The routes registered with authMiddleware.
ProtectedOps == {"info", "emails", "webhook-put", "webhook-delete", "send",
                 "send-template"}

authMiddlewareAnyScheme(header) == {r \in agentRows : r.api_key = header.key}

\* authMiddleware: the agent rows next() is called with, none when it answers
\* 401 (no header, a header that does not start with 'Bearer ', or a key that
\* no row has).
authMiddleware(header) ==
    IF header.scheme # "Bearer" THEN {}
    ELSE {r \in agentRows : r.api_key = header.key}

\* The webhook URLs agents register, and a string that is not a URL.
WebhookUrls == Urls \cup {"u2"}
NotAUrl == "not-a-url"

isValidUrlAny(url) == TRUE

\* new URL(webhook_url) does not throw.
isValidUrl(url) == url \in WebhookUrls

UpdateWebhookAll(agent, url) == {[r EXCEPT !.webhook_url = url] : r \in agentRows}

\* UPDATE agents SET webhook_url = ? WHERE id = ?: the table afterwards.
UpdateWebhook(agent, url) ==
    (agentRows \ {agent}) \cup {[agent EXCEPT !.webhook_url = url]}

\* A request to a protected route: authMiddleware, then the handler.  The
\* handlers of emails, send and send-template go on to the mail collaborators
\* (entered); url is the webhook_url of the body of PUT /api/mailbox/webhook,
\* None when it is missing or empty.
Protected(op, header, url) ==
    LET Re(status) == [Reply(op, status) EXCEPT !.header = header, !.body = url] IN
    /\ IF authMiddleware(header) = {}
       THEN reply' = Re(401) /\ UNCHANGED agentRows
       ELSE \E agent \in authMiddleware(header) :
              CASE op = "info" ->
                     /\ reply' = [Re(200) EXCEPT
                                    !.mailbox_id = agent.mailbox_id,
                                    !.webhook_url = agent.webhook_url]
                     /\ UNCHANGED agentRows
                [] op = "webhook-put" ->
                     IF url # None /\ ~isValidUrl(url)
                     THEN reply' = Re(400) /\ UNCHANGED agentRows
                     ELSE /\ agentRows' = UpdateWebhook(agent, url)
                          /\ reply' = [Re(200) EXCEPT !.webhook_url = url]
                [] op = "webhook-delete" ->
                     /\ agentRows' = UpdateWebhook(agent, None)
                     /\ reply' = Re(200)
                [] OTHER ->
                     /\ reply' = [Re(0) EXCEPT !.entered = TRUE]
                     /\ UNCHANGED agentRows
    /\ UNCHANGED <<payments, inflight, created, regFrame>>

Outcomes == {"verified", "unverified", "error"}

\* The payment routes and the paid creation.
PayNext ==
    \/ \E kind \in {"missing", "unknown", "ok"} :
          \E ref \in IF kind = "ok" THEN Refs ELSE {NoRef} : PayRequest(kind, ref)
    \/ \E ref \in Refs : StatusBegin(ref)
    \/ \E q \in BagToSet(inflight), outcome \in Outcomes : StatusVerified(q, outcome)
    \/ \E ref \in Refs \cup {NoRef} : CreatePaidBegin(ref)
    \/ \E q \in BagToSet(inflight), outcome \in Outcomes : CreatePaidVerified(q, outcome)

PaySpec == PollInit /\ [][PayNext]_vars

\* The two creation routes, free and paid, in any mix.
CreateNext ==
    \/ \E key \in MoltbookKeys \cup {None} : CreateBegin(key)
    \/ \E q \in BagToSet(inflight), valid \in BOOLEAN : CreateVerified(q, valid)
    \/ \E ref \in Refs \cup {NoRef} : CreatePaidBegin(ref)
    \/ \E q \in BagToSet(inflight), outcome \in Outcomes : CreatePaidVerified(q, outcome)

CreateSpec == PollInit /\ [][CreateNext]_vars

\* The protected routes, called by anyone, on mailboxes created at run time.
AuthNext ==
    \/ \E key \in MoltbookKeys \cup {None} : CreateBegin(key)
    \/ \E q \in BagToSet(inflight), valid \in BOOLEAN : CreateVerified(q, valid)
    \/ \E op \in ProtectedOps, header \in Headers :
          \E url \in IF op = "webhook-put" THEN WebhookUrls \cup {None, NotAUrl} ELSE {None} :
             Protected(op, header, url)

AuthSpec == PollInit /\ [][AuthNext]_vars

\* GET /api/mailbox of agent a: the answer is built from req.agent.
GetMailbox(a) ==
    /\ reply' = [Reply("info", 200) EXCEPT !.mailbox_id = a,
                                           !.webhook_url = webhook_url[a]]
    /\ UNCHANGED <<agentRows, payments, inflight, created, regFrame>>

\* (GET /api/mailbox/emails, were it to store the time of the fetch.)
GetEmailsMarksChecked(a, resolved) ==
    /\ IF resolved
       THEN \E emails \in fetchEmails(a, 10, now) :
               reply' = [Reply("emails", 200) EXCEPT !.mailbox_id = a,
                                                     !.body = Len(emails)]
       ELSE reply' = [Reply("emails", 500) EXCEPT !.mailbox_id = a]
    /\ last_check' = [last_check EXCEPT ![a] = now]
    /\ UNCHANGED <<webhook_url, last_email_id, mailbox, now, poll, sent, histVars>>
    /\ UNCHANGED <<agentRows, payments, inflight, created>>
    /\ UNCHANGED <<sendVars, postVars, addrVars, pureVars>>

\* GET /api/mailbox/emails of agent a with no limit in the query (10): the
\* answer carries the emails fetchEmails resolved with (body: how many), or is
\* 500 when it rejected.
GetEmails(a, resolved) ==
    /\ IF resolved
       THEN \E emails \in fetchEmails(a, 10, now) :
               reply' = [Reply("emails", 200) EXCEPT !.mailbox_id = a,
                                                     !.body = Len(emails)]
       ELSE reply' = [Reply("emails", 500) EXCEPT !.mailbox_id = a]
    /\ UNCHANGED <<agentRows, payments, inflight, created, regFrame>>

\* The send side of a server in use: each agent has sent one email today and
\* no send request is being handled.
SendAtRest ==
    /\ today = 1
    /\ sends_today = [a \in Agents |-> 1]
    /\ last_send_date = [a \in Agents |-> 1]
    /\ smtpCalls = [a \in Agents |-> 1]
    /\ req = [r \in Reqs |-> NoReq]
    /\ resp = NoReq

\* Its mail side: message 1, for a1, was posted to the webhook of a1 by the
\* poll cycle of second 1, and no cycle is running.
InboxAtRest ==
    /\ webhook_url = [a \in Agents |-> IF a = "a1" THEN "u1" ELSE None]
    /\ last_email_id = [a \in Agents |-> IF a = "a1" THEN 1 ELSE NULL]
    /\ last_check = [a \in Agents |-> IF a = "a1" THEN 1 ELSE NULL]
    /\ mailbox = <<[to |-> "a1", date |-> NoDate]>>
    /\ now = 2
    /\ poll = [c \in Cycles |-> NoPoll]
    /\ sent = [m \in MsgIds |-> IF m = 1 THEN 1 ELSE 0]

OwnerInit ==
    /\ SendAtRest /\ InboxAtRest
    /\ fetched = [a \in Agents |-> NoFetch] /\ allFailed = FALSE /\ lost = {}
    /\ PostInit /\ RegistryInit /\ AddrInit /\ PureInit

\* The server under one kind of traffic at a time: send requests; mail
\* arriving without a Date header, webhook changes and poll cycles; or reads
\* of the mailbox and payments by one reference.
OwnerNext ==
    \/ /\ InboxAtRest /\ RegistryInit
       /\ \E r \in Reqs, a \in Agents, kind \in {"send", "template"} :
             \E b \in Bodies(kind) : SendBegin(r, a, kind, b)
    \/ /\ InboxAtRest /\ RegistryInit
       /\ \E r \in Reqs, settled \in {"resolved", "rejected"} : SendDone(r, settled)
    \/ InboxAtRest /\ RegistryInit /\ NewDay
    \/ SendAtRest /\ RegistryInit /\ PollStart(1) /\ UNCHANGED <<histVars, postVars>>
    \/ SendAtRest /\ RegistryInit /\ FetchComplete(1) /\ UNCHANGED <<histVars, postVars>>
    \/ SendAtRest /\ RegistryInit /\ FetchFail(1) /\ UNCHANGED <<histVars, postVars>>
    \/ /\ SendAtRest /\ RegistryInit
       /\ \E ok \in BOOLEAN : PostDone(1, ok) /\ UNCHANGED <<histVars, postVars>>
    \/ /\ SendAtRest /\ RegistryInit
       /\ \E a \in Agents : SetWebhook(a, "u1") /\ UNCHANGED <<histVars, postVars>>
    \/ /\ SendAtRest /\ RegistryInit
       /\ \E a \in Agents : DeleteWebhook(a) /\ UNCHANGED <<histVars, postVars>>
    \/ /\ SendAtRest /\ RegistryInit
       /\ \E to \in Recipients : Arrive(to, NoDate) /\ UNCHANGED <<histVars, postVars>>
    \/ SendAtRest /\ InboxAtRest /\ \E a \in Agents : GetMailbox(a)
    \/ /\ SendAtRest /\ InboxAtRest
       /\ \E a \in Agents, resolved \in BOOLEAN : GetEmails(a, resolved)
    \/ SendAtRest /\ InboxAtRest /\ PayRequest("ok", CHOOSE ref \in Refs : TRUE)
    \/ SendAtRest /\ InboxAtRest /\ StatusBegin(CHOOSE ref \in Refs : TRUE)
    \/ /\ SendAtRest /\ InboxAtRest
       /\ \E q \in BagToSet(inflight), outcome \in Outcomes : StatusVerified(q, outcome)
    \/ SendAtRest /\ InboxAtRest /\ CreatePaidBegin(CHOOSE ref \in Refs : TRUE)
    \/ /\ SendAtRest /\ InboxAtRest
       /\ \E q \in BagToSet(inflight), outcome \in Outcomes :
             CreatePaidVerified(q, outcome)

OwnerSpec == OwnerInit /\ [][OwnerNext]_vars

\* ------------------------------------------------------------ crypto.js
\* The outcome of a call: a returned value or a thrown error.
Returned(v) == [ret |-> v]
Thrown(msg) == [thrown |-> msg]
IsThrown(o) == "thrown" \in DOMAIN o

\* A byte array (Uint8Array): its length and what it holds.
Bytes(len, val) == [len |-> len, val |-> val]

\* An argument given where base64 text is expected: a string of n characters
\* of the base64 alphabet followed by pad '=' characters (junk: a character
\* that is neither occurs in it), or null or undefined.  val is what the
\* characters encode.
Text(n, pad, junk, val) ==
    [type |-> "string", n |-> n, pad |-> pad, junk |-> junk, val |-> val]

\* naclUtil.encodeBase64: four characters for every three bytes, the last
\* group padded with '='.
encodeBase64(b) ==
    Text(4 * (b.len \div 3) + (IF b.len % 3 = 0 THEN 0 ELSE (b.len % 3) + 1),
         (3 - (b.len % 3)) % 3, FALSE, b.val)

\* naclUtil.decodeBase64: a TypeError for null and undefined and for text
\* that fails the pattern of validateBase64,
\* /^(?:[A-Za-z0-9+\/]{2}[A-Za-z0-9+\/]{2})*(?:[A-Za-z0-9+\/]{2}==|[A-Za-z0-9+\/]{3}=)?$/
\* else the decoded bytes.
decodeBase64(s) ==
    LET validateBase64 ==
            /\ ~s.junk
            /\ \/ s.pad = 0 /\ s.n % 4 = 0
               \/ s.pad = 1 /\ s.n % 4 = 3
               \/ s.pad = 2 /\ s.n % 4 = 2
    IN  IF s.type # "string" THEN Thrown("TypeError")
        ELSE IF ~validateBase64 THEN Thrown("invalid encoding")
        ELSE Returned(Bytes(3 * ((s.n + s.pad) \div 4) - s.pad, s.val))

\* isValidPublicKey: decoded.length === nacl.box.publicKeyLength, false when
\* decodeBase64 throws.
isValidPublicKeyAnyLength(publicKeyBase64) ==
    LET decoded == decodeBase64(publicKeyBase64)
    IN  IF IsThrown(decoded) THEN Returned(FALSE) ELSE Returned(TRUE)

isValidPublicKey(publicKeyBase64) ==
    LET decoded == decodeBase64(publicKeyBase64)
    IN  IF IsThrown(decoded) THEN Returned(FALSE)
        ELSE Returned(decoded.ret.len = publicKeyLength)

\* nacl.box.keyPair(): 32 random bytes as the secret key and the public key
\* derived from them; k names the pair.
KeyPairIds == {"k1", "k2", "srv"}
keyPair(k) == [publicKey |-> Bytes(publicKeyLength, [key |-> k]),
               secretKey |-> Bytes(secretKeyLength, [key |-> k])]

\* getServerKeyPair(): the memoized pair, generated at the first call.  (The
\* variant generates a pair at every call: another pair than the one before.)
getServerKeyPairNoMemo(memo) ==
    IF memo = <<>> \/ memo[1] # keyPair("srv") THEN keyPair("srv") ELSE keyPair("k2")

getServerKeyPair(memo) == IF memo = <<>> THEN keyPair("srv") ELSE memo[1]

\* The contents: the strings of at most MaxText characters, each an ASCII
\* letter (code point 97, one byte in UTF-8) or U+00E9 (233, two bytes).
Plaintexts == UNION {[1..n -> {97, 233}] : n \in 0..MaxText}

\* naclUtil.decodeUTF8: the UTF-8 bytes of a string.
RECURSIVE decodeUTF8(_)
decodeUTF8(s) ==
    IF s = <<>> THEN <<>>
    ELSE (IF Head(s) < 128 THEN <<Head(s)>>
          ELSE <<192 + (Head(s) \div 64), 128 + (Head(s) % 64)>>)
         \o decodeUTF8(Tail(s))

\* naclUtil.encodeUTF8: the string of UTF-8 bytes.
RECURSIVE encodeUTF8(_)
encodeUTF8(b) ==
    IF b = <<>> THEN <<>>
    ELSE IF Head(b) < 128 THEN <<Head(b)>> \o encodeUTF8(Tail(b))
    ELSE <<(Head(b) - 192) * 64 + (b[2] - 128)>> \o encodeUTF8(Tail(Tail(b)))

\* The key that X25519 derives from a public key and a secret key: the same
\* for (pub of A, sec of B) and (pub of B, sec of A), different for every other
\* pair of keypairs.
before(publicKey, secretKey) == {publicKey.val.key, secretKey.val.key}

\* nacl.box: throws on a public key that is not 32 bytes long (checkBoxLengths),
\* else the message sealed under the derived key and the nonce, 16 bytes longer
\* than the message.
box(message, nonce, publicKey, secretKey) ==
    IF publicKey.len # publicKeyLength THEN Thrown("bad public key size")
    ELSE Returned(Bytes(message.len + overheadLength,
                        [sealed |-> message.val, nonce |-> nonce.val,
                         under |-> before(publicKey, secretKey)]))

\* What nacl.box.open returns for a box that does not verify.
Null == [null |-> TRUE]

\* nacl.box.open: the message when the authenticator verifies, which it does
\* only under the key and the nonce the box was sealed with; else null.
openAnyKey(sealedBox, nonce, publicKey, secretKey) ==
    Bytes(sealedBox.len - overheadLength, sealedBox.val.sealed)

open(sealedBox, nonce, publicKey, secretKey) ==
    IF /\ sealedBox.val.under = before(publicKey, secretKey)
       /\ sealedBox.val.nonce = nonce.val
    THEN Bytes(sealedBox.len - overheadLength, sealedBox.val.sealed)
    ELSE Null

\* The catch block of encryptForAgent.
encryptFallback(content, err) == Returned(content)

encryptFailed(content, err) ==
    Thrown(<<"Failed to encrypt content: ", err.thrown>>)

\* encryptForAgent(content, agentPublicKeyBase64), with the nonce that
\* nacl.randomBytes gives and the server keypair.
encryptForAgent(content, agentPublicKeyBase64, nonce, serverKeys) ==
    LET agentPublicKey == decodeBase64(agentPublicKeyBase64)
    IN  IF IsThrown(agentPublicKey) THEN encryptFailed(content, agentPublicKey)
        ELSE LET utf8 == decodeUTF8(content)
                 message == Bytes(Len(utf8), utf8)
                 encrypted == box(message, nonce, agentPublicKey.ret,
                                  serverKeys.secretKey)
             IN  IF IsThrown(encrypted) THEN encryptFailed(content, encrypted)
                 ELSE Returned([encrypted |-> encodeBase64(encrypted.ret),
                                nonce |-> encodeBase64(nonce),
                                serverPublicKey |-> encodeBase64(serverKeys.publicKey)])

\* decrypt(encryptedBase64, nonceBase64, senderPublicKeyBase64, secretKey)
decrypt(encryptedBase64, nonceBase64, senderPublicKeyBase64, secretKey) ==
    LET encrypted == decodeBase64(encryptedBase64)
        nonce == decodeBase64(nonceBase64)
        senderPublicKey == decodeBase64(senderPublicKeyBase64)
    IN  IF IsThrown(encrypted) THEN encrypted
        ELSE IF IsThrown(nonce) THEN nonce
        ELSE IF IsThrown(senderPublicKey) THEN senderPublicKey
        ELSE LET decrypted == open(encrypted.ret, nonce.ret,
                                   senderPublicKey.ret, secretKey)
             IN  IF "null" \in DOMAIN decrypted   \* !decrypted: an empty array is truthy
                 THEN Thrown("Decryption failed - invalid key or corrupted data")
                 ELSE Returned(encodeUTF8(decrypted.val))

\* The arguments given as a public key: base64 text of several lengths and
\* paddings, with and without a foreign character, of the key of a keypair or
\* of bytes that belong to none, and null and undefined.
KeyTexts ==
    {Text(n, pad, junk, [key |-> k]) :
        n \in {0, 22, 42, 43, 44}, pad \in 0..3, junk \in BOOLEAN,
        k \in {"k1", "k2", "unowned"}}
    \cup {[Text(0, 0, FALSE, [key |-> "unowned"]) EXCEPT !.type = t] :
            t \in {"null", "undefined"}}

\* nacl.randomBytes(nacl.box.nonceLength)
Nonces == {Bytes(nonceLength, n) : n \in {"n1", "n2"}}

\* isValidPublicKey(key)
ValidateKey ==
    /\ call.fn = None
    /\ call' = [call EXCEPT !.fn = "isValidPublicKey",
                            !.out = isValidPublicKey(call.key)]
    /\ UNCHANGED serverKeyPair

\* encryptForAgent(content, key): the server keypair is created when
\* getServerKeyPair is reached for the first time.
Encrypt(nonce) ==
    /\ call.fn = None
    /\ call' = [call EXCEPT !.fn = "encryptForAgent", !.calls = 1,
                            !.out = encryptForAgent(call.content, call.key, nonce,
                                                    getServerKeyPair(serverKeyPair))]
    /\ serverKeyPair' = IF IsThrown(decodeBase64(call.key)) THEN serverKeyPair
                        ELSE <<getServerKeyPair(serverKeyPair)>>

\* A later call of encryptForAgent in the same process, for the same content
\* and any key (calls: 2 from the second call on).
EncryptAgain(key, nonce) ==
    /\ call.fn = "encryptForAgent"
    /\ call' = [call EXCEPT !.key = key, !.calls = 2,
                            !.out = encryptForAgent(call.content, key, nonce,
                                                    getServerKeyPair(serverKeyPair))]
    /\ serverKeyPair' = IF IsThrown(decodeBase64(key)) THEN serverKeyPair
                        ELSE <<getServerKeyPair(serverKeyPair)>>

\* decrypt of what encryptForAgent returned, with the secret key of keypair k.
Decrypt(k) ==
    /\ call.fn = "encryptForAgent"
    /\ ~IsThrown(call.out)
    /\ call' = [call EXCEPT !.fn = "decrypt",
                            !.secret = k,
                            !.out = decrypt(call.out.ret.encrypted,
                                            call.out.ret.nonce,
                                            call.out.ret.serverPublicKey,
                                            keyPair(k).secretKey)]
    /\ UNCHANGED serverKeyPair

CryptoInit ==
    /\ QuotaInit /\ WatermarkInit /\ PostInit /\ RegistryInit /\ AddrInit
    /\ serverKeyPair = <<>>
    /\ \E key \in KeyTexts, content \in Plaintexts :
          call = [fn |-> None, key |-> key, content |-> content, secret |-> None,
                  calls |-> 0, out |-> Returned(None)]

CryptoNext ==
    \/ ValidateKey /\ UNCHANGED <<sendVars, pollVars, postVars, regVars, addrVars>>
    \/ \E nonce \in Nonces :
          Encrypt(nonce) /\ UNCHANGED <<sendVars, pollVars, postVars, regVars, addrVars>>
    \/ \E key \in KeyTexts, nonce \in Nonces :
          /\ EncryptAgain(key, nonce)
          /\ UNCHANGED <<sendVars, pollVars, postVars, regVars, addrVars>>
    \/ \E k \in KeyPairIds :
          Decrypt(k) /\ UNCHANGED <<sendVars, pollVars, postVars, regVars, addrVars>>

CryptoSpec == CryptoInit /\ [][CryptoNext]_vars

\* --------------------------------------------------------- extractCodes
\* The character classes of the patterns: \d, \w and [:\s].
Digits == {"0", "1", "2", "3", "4", "5", "6", "7", "8", "9"}
WordChars ==
    Digits \cup {UpperCase[i] : i \in 1..26} \cup {LowerCase[i] : i \in 1..26} \cup {"_"}
Separators == {":", " ", "\t", "\n"}

\* The patterns of extractCodes in their order: the word that must precede the
\* code (none for the first, which asks for \b on both sides instead), the
\* class of the characters of the code and the least and greatest number of them.
patterns ==
    <<[word |-> <<>>, class |-> Digits, min |-> 4, max |-> 8],
      [word |-> <<"c", "o", "d", "e">>, class |-> WordChars, min |-> 4, max |-> 10],
      [word |-> <<"v", "e", "r", "i", "f", "i", "c", "a", "t", "i", "o", "n">>,
       class |-> WordChars, min |-> 4, max |-> 10],
      [word |-> <<"o", "t", "p">>, class |-> Digits, min |-> 4, max |-> 8],
      [word |-> <<"p", "i", "n">>, class |-> Digits, min |-> 4, max |-> 8]>>

\* The number of consecutive characters of the class from position i on.
RunLength(s, i, class) ==
    CHOOSE n \in 0..(Len(s) + 1 - i) :
        /\ \A j \in i..(i + n - 1) : s[j] \in class
        /\ i + n <= Len(s) => s[i + n] \notin class

\* \b between the characters at i - 1 and i.
Boundary(s, i) ==
    LET IsWordAt(j) == j >= 1 /\ j <= Len(s) /\ s[j] \in WordChars
    IN  IsWordAt(i - 1) # IsWordAt(i)

\* The word of a pattern at position i, letters compared without case (flag i).
WordAt(s, i, word) ==
    /\ i + Len(word) - 1 <= Len(s)
    /\ toLowerCase(SubSeq(s, i, i + Len(word) - 1)) = word

\* The numbers of code characters with which pattern p matches at position i:
\* the quantifier is greedy, so the match takes the greatest of them.
Takes(p, s, i) ==
    IF p.word = <<>>
    THEN LET n == RunLength(s, i, p.class)
         IN  {k \in p.min..p.max : k <= n /\ Boundary(s, i) /\ Boundary(s, i + k)}
    ELSE IF ~WordAt(s, i, p.word) THEN {}
    ELSE LET from == i + Len(p.word)
             seps == RunLength(s, from, Separators)
             n == RunLength(s, from + seps, p.class)
         IN  IF seps = 0 THEN {} ELSE {k \in p.min..p.max : k <= n}

\* text.matchAll(pattern): match[1] of the successive matches, each search
\* starting where the match before ended; lastIndex is that of the pattern.
RECURSIVE matchAll(_, _, _)
matchAll(p, s, lastIndex) ==
    IF lastIndex > Len(s) THEN <<>>
    ELSE IF Takes(p, s, lastIndex) = {} THEN matchAll(p, s, lastIndex + 1)
    ELSE LET k == CHOOSE k \in Takes(p, s, lastIndex) :
                      \A l \in Takes(p, s, lastIndex) : l <= k
             start == IF p.word = <<>> THEN lastIndex
                      ELSE lastIndex + Len(p.word)
                           + RunLength(s, lastIndex + Len(p.word), Separators)
         IN  <<SubSeq(s, start, start + k - 1)>> \o matchAll(p, s, start + k)

\* codes.add(match[1]) for every match, and [...codes]: the codes in the order
\* in which they were first added.
RECURSIVE spread(_, _)
spread(added, matches) ==
    IF matches = <<>> THEN added
    ELSE IF \E i \in 1..Len(added) : added[i] = Head(matches)
    THEN spread(added, Tail(matches))
    ELSE spread(Append(added, Head(matches)), Tail(matches))

\* An argument of extractCodes: a string, null or undefined.
String(chars) == [type |-> "string", chars |-> chars]

\* if (!text): null, undefined and the empty string.
IsFalsyNever(text) == FALSE

IsFalsy(text) == text.type # "string" \/ text.chars = <<>>

\* extractCodes(text): the patterns are regular expression literals evaluated
\* in the call, each with lastIndex 0; matchAll is no method of null.
extractCodes(text) ==
    IF IsFalsy(text) THEN Returned(<<>>)
    ELSE IF text.type # "string" THEN Thrown("TypeError")
    ELSE LET matches(i) == matchAll(patterns[i], text.chars, 1)
         IN  Returned(spread(<<>>, matches(1) \o matches(2) \o matches(3)
                                    \o matches(4) \o matches(5)))

RECURSIVE Joined(_)
Joined(pieces) ==
    IF pieces = <<>> THEN <<>> ELSE Head(pieces) \o Joined(Tail(pieces))

\* The arguments: null, undefined, and the strings of at most MaxPieces pieces
\* (the empty string among them).  The pieces: the words of the patterns in
\* several cases, a word that contains one of them, separators, digit runs
\* below, within and above 4-8, a word run within 4-10, and a full stop.
Texts ==
    LET Pieces ==
            {<<"c", "o", "d", "e">>, <<"C", "o", "d", "e">>,
             <<"V", "E", "R", "I", "F", "I", "C", "A", "T", "I", "O", "N">>,
             <<"O", "T", "P">>, <<"s", "p", "i", "n">>,
             <<":">>, <<" ">>, <<".">>,
             <<"1", "2", "3">>, <<"4", "3", "2", "1">>,
             <<"1", "2", "3", "4", "5", "6", "7", "8", "9">>,
             <<"A", "B", "C", "1", "2", "3">>}
    IN  {[type |-> t, chars |-> <<>>] : t \in {"null", "undefined"}}
        \cup {String(Joined(ps)) :
                ps \in UNION {[1..n -> Pieces] : n \in 0..MaxPieces}}

\* extractCodes(text), called again with the same text after the first call.
ExtractCodes ==
    /\ call.calls < 2
    /\ call' = [call EXCEPT !.fn = "extractCodes", !.calls = @ + 1,
                            !.first = IF call.calls = 0 THEN extractCodes(call.text)
                                      ELSE @,
                            !.out = extractCodes(call.text)]
    /\ UNCHANGED serverKeyPair

CodesInit ==
    /\ QuotaInit /\ WatermarkInit /\ PostInit /\ RegistryInit /\ AddrInit
    /\ serverKeyPair = <<>>
    /\ \E text \in Texts :
          call = [fn |-> None, text |-> text, calls |-> 0,
                  first |-> Returned(<<>>), out |-> Returned(<<>>)]

CodesNext ==
    ExtractCodes /\ UNCHANGED <<sendVars, pollVars, postVars, regVars, addrVars>>

CodesSpec == CodesInit /\ [][CodesNext]_vars

\* ------------------------------------------------ the address claims
\* The agents one of whose own addresses (in any letter case) is a recipient.
Addressed ==
    {a \in Agents : \E i \in 1..Len(rcpt) :
        rcpt[i].of = a /\ rcpt[i].kind \in {"exact", "upper", "mixed"}}
Pushed == {a \in Agents : returned[a] = "pushed"}

\* C12 (as stated): at most one agent's fetch returns the message, whatever
\* its To header lists.
C12_AtMostOneOwner == Cardinality(Pushed) <= 1

\* C12 (amended): the message is returned only to agents whose mailbox address
\* is among its recipients; with a single recipient address that is at most one
\* agent, and with no agent's address among the recipients it is nobody.
C12_OwnersAreTheAddressed ==
    /\ Pushed \subseteq Addressed
    /\ Len(rcpt) <= 1 => Cardinality(Pushed) <= 1
    /\ Addressed = {} => Pushed = {}

C12_Witness ==
    /\ Len(rcpt) = 2 /\ Cardinality(Pushed) = 2
    /\ \A a \in Agents : returned[a] # None

\* C13: once the fetch of an agent's mailbox has parsed the message, the
\* message is pushed if and only if a recipient address is the agent's mailbox
\* address in some letter case; another agent's suffix, a longer suffix, the
\* base address and a string containing the address never match.
C13_ExactCaseInsensitive ==
    \A a \in Agents :
        returned[a] # None => (returned[a] = "pushed" <=> a \in Addressed)

C13_Witness ==
    /\ returned["a1"] = "pushed" /\ returned["a2"] = "skipped"
    /\ Len(rcpt) = 2
    /\ rcpt[1] = [kind |-> "upper", of |-> "a1"]
    /\ rcpt[2] = [kind |-> "prefixed", of |-> "a2"]

\* ----------------------------------------------- the registry's claims
\* The handler that was awaiting with the locals q runs in this step.
Settles(q) == BagIn(q, inflight) /\ inflight' = inflight (-) SetToBag({q})

\* C15: no reference ever has more than one agent row created by create-paid,
\* with or without a row in payments, and once a reference has created its
\* mailbox every create-paid request with it is refused and creates nothing.
C15_OneMailboxPerReference ==
    [][/\ \A ref \in Refs : CopiesIn(ref, created') <= 1
       /\ \A q \in BagToSet(inflight) :
             (Settles(q) /\ q.op = "create-paid" /\ CopiesIn(q.ref, created) >= 1)
                => /\ reply'.op = "create-paid" /\ reply'.status # 200
                   /\ agentRows' = agentRows]_vars

C15_Witness ==
    \E ref \in Refs :
        /\ CopiesIn(ref, created) = 1 /\ SelectPayment(ref) = NoRow
        /\ reply.op = "create-paid" /\ reply.status = 500
        /\ reply.outcome = "verified"
        /\ inflight = EmptyBag

\* C16: when verifyPayment does not settle with verified, create-paid inserts
\* no agent row and marks no payment used; when it returns not verified the
\* answer is 402 Payment not confirmed.
C16_OnlyVerifiedPaymentCreates ==
    [][\A q \in BagToSet(inflight) :
         (Settles(q) /\ q.op = "create-paid" /\ reply'.outcome # "verified")
            => /\ agentRows' = agentRows /\ payments' = payments
               /\ created' = created
               /\ reply'.outcome = "unverified" => reply'.status = 402]_vars

C16_Witness ==
    /\ reply.op = "create-paid" /\ reply.status = 402
    /\ \E ref \in Refs : SelectPayment(ref) = [status |-> "confirmed", used |-> 0]
    /\ agentRows = {}

\* C17: the status of a payment row changes only from no row to 'pending',
\* and from 'pending' to 'confirmed' in a step of pay/status for that reference
\* in which verifyPayment returned verified; it never goes back to 'pending'.
C17_StatusLifecycle ==
    [][\A ref \in Refs :
         SelectPayment(ref)'.status # SelectPayment(ref).status
            => \/ SelectPayment(ref) = NoRow /\ SelectPayment(ref)'.status = "pending"
               \/ /\ SelectPayment(ref).status = "pending"
                  /\ SelectPayment(ref)'.status = "confirmed"
                  /\ Settles([op |-> "status", key |-> None, ref |-> ref])
                  /\ reply'.op = "status" /\ reply'.outcome = "verified"]_vars

C17_Witness ==
    \E ref \in Refs :
        /\ SelectPayment(ref).status = "confirmed"
        /\ reply.op = "pay-request" /\ reply.status = 400

\* C18: every create request whose key verifies to an owner id leaves exactly
\* one agent row of that owner and is answered 200 with that row's mailbox_id
\* (so its email) and api_key.
C18_CreateIdempotent ==
    [][\A q \in BagToSet(inflight) :
         (Settles(q) /\ q.op = "create" /\ reply'.status # 401)
            => LET own == {r \in agentRows' : r.moltbook_id = OwnerOf(q.key)}
               IN  /\ Cardinality(own) = 1
                   /\ reply'.status = 200
                   /\ \A r \in own : /\ reply'.mailbox_id = r.mailbox_id
                                     /\ reply'.api_key = r.api_key]_vars

\* C19: after every step no two agent rows share a mailbox_id, an email or an
\* api_key, and a row that is inserted shares none with the rows there were.
C19_UniqueAddressAndCredential ==
    [][/\ \A r1, r2 \in agentRows' :
             r1 # r2 => /\ r1.mailbox_id # r2.mailbox_id
                        /\ r1.email # r2.email
                        /\ r1.api_key # r2.api_key
       /\ \A new \in agentRows' \ agentRows : \A r \in agentRows :
             /\ new.mailbox_id # r.mailbox_id
             /\ new.email # r.email
             /\ new.api_key # r.api_key]_vars

C19_Witness ==
    /\ \E r1, r2 \in agentRows : r1.paid = 1 /\ r2.paid = 0
    /\ reply.op = "create" /\ reply.status = 500

\* The credential of the request is absent, not a Bearer one, or no agent's.
BadCredential(header) ==
    header.scheme # "Bearer" \/ \A r \in agentRows : r.api_key # header.key

\* C20: a request to a protected route without a Bearer credential of an
\* agent is answered 401, is not passed on to the handler (no fetchEmails, no
\* sendEmail) and changes no table.
C20_UnauthenticatedRefused ==
    [][(reply'.op \in ProtectedOps /\ inflight' = inflight
            /\ BadCredential(reply'.header))
          => /\ reply'.status = 401 /\ ~reply'.entered
             /\ agentRows' = agentRows /\ payments' = payments]_vars

C20_Witness ==
    /\ reply.op = "webhook-put" /\ reply.status = 401
    /\ reply.header.scheme = "Basic"
    /\ \E r \in agentRows : r.api_key = reply.header.key

\* A protected route answers in this step.
Answers(ops) == reply'.op \in ops /\ inflight' = inflight

\* C21: a successful PUT of a webhook URL (or of null or "") by an agent leaves
\* that URL (or NULL) in the agent's row whatever was there before, DELETE
\* leaves NULL, GET /api/mailbox reports the webhook_url of the agent's row,
\* and none of them changes or removes a row of another agent.
C21_WebhookRoundTrip ==
    [][(Answers({"webhook-put", "webhook-delete", "info"}) /\ reply'.status = 200)
          => LET key == reply'.header.key
                 own == {r \in agentRows' : r.api_key = key}
             IN  /\ Cardinality(own) = 1
                 /\ Cardinality(agentRows') = Cardinality(agentRows)
                 /\ \A r \in agentRows : r.api_key # key => r \in agentRows'
                 /\ \A r \in own :
                       /\ reply'.op = "webhook-put" => r.webhook_url = reply'.body
                       /\ reply'.op = "webhook-delete" => r.webhook_url = None
                       /\ reply'.op = "info" => /\ reply'.webhook_url = r.webhook_url
                                                /\ agentRows' = agentRows]_vars

\* An agent whose webhook was set is told u2 by GET /api/mailbox while the
\* other agent's row keeps u1.
C21_Witness ==
    /\ reply.op = "info" /\ reply.status = 200 /\ reply.webhook_url = "u2"
    /\ \E r \in agentRows : r.api_key # reply.header.key /\ r.webhook_url = "u1"

MovesOn(c, p) ==
    IF Len(p.agents) > 1
    THEN poll'[c].pc = "fetch" /\ poll'[c].agents = Tail(p.agents)
    ELSE poll'[c].pc = "idle"

\* C2: a message is dispatched to its agent's webhook at most once over all
\* poll cycles.
C2_DispatchedAtMostOnce == \A m \in MsgIds : sent[m] <= 1

\* C3: every message addressed to an agent with a registered webhook that is
\* in the shared mailbox is eventually handed to the dispatcher (a webhook post
\* is issued for it in some poll cycle).
C3_NoMissedNotification ==
    \A m \in MsgIds :
        (m <= Len(mailbox) /\ webhook_url[mailbox[m].to] # None) ~> (sent[m] >= 1)

\* C11: every webhook post issued for a message of an agent that has a
\* registered encryption public key carries the subject and the body encrypted
\* for that key, never as plaintext.
C11_EncryptedWhenKeyRegistered ==
    [][\A c \in Cycles :
         Posted(c) =>
            LET owner == mailbox[lastPost'.id].to
            IN  public_key[owner] # None
                   => /\ lastPost'.subject.key = public_key[owner]
                      /\ lastPost'.body.key = public_key[owner]]_vars

\* C14: every webhook post goes to the webhook URL of the agent the message is
\* addressed to, with event 'email.received', that agent's mailbox_id, and the
\* message's id, to, subject, body and received_at as fetched.
C14_OwnersUrlFixedEnvelope ==
    [][\A c \in Cycles :
         Posted(c) =>
            LET m == lastPost'.id
                owner == mailbox[m].to
                email == poll'[c].newEmails[poll'[c].j]
            IN  /\ lastPost'.url = webhook_url[owner]
                /\ lastPost'.event = "email.received"
                /\ lastPost'.mailbox_id = owner
                /\ m = email.id
                /\ lastPost'.to = mailbox[m].to
                /\ lastPost'.subject = Plain(m) /\ lastPost'.body = Plain(m)
                /\ lastPost'.received_at = email.received_at]_vars

\* C6: when a webhook post settles, failed or not, the cycle goes on: the
\* agent's next new email is posted, and after the last one the agent's
\* watermark is written (emails[0].id, now) and the loop moves on to the next
\* agent, whose new mail is posted in turn, or, after the last agent, returns.
C6_DispatchIsolation ==
    [][\A c \in Cycles :
         LET p == poll[c]
             a == Head(p.agents).id
         IN  /\ (p.pc = "post" /\ poll'[c] # p)
                  => IF p.j < Len(p.newEmails)
                     THEN /\ poll'[c].pc = "post" /\ poll'[c].j = p.j + 1
                          /\ poll'[c].agents = p.agents
                          /\ poll'[c].newEmails = p.newEmails
                          /\ sent'[p.newEmails[p.j + 1].id] =
                                Min(sent[p.newEmails[p.j + 1].id] + 1, 2)
                     ELSE /\ last_email_id'[a] = p.latestEmail
                          /\ last_check'[a] = now
                          /\ MovesOn(c, p)
             /\ (p.pc = "fetch" /\ poll'[c].pc = "post")
                  => /\ poll'[c].agents = p.agents
                     /\ poll'[c].j = 1
                     /\ sent'[poll'[c].newEmails[1].id] =
                           Min(sent[poll'[c].newEmails[1].id] + 1, 2)]_vars

\* The post for agent a1 has failed, a1's watermark is written, and the post
\* for a2's last new email is under way in the same cycle.
C6_Witness ==
    /\ poll[1].pc = "post"
    /\ "a1" \in poll[1].failed
    /\ Head(poll[1].agents).id = "a2"
    /\ poll[1].j = Len(poll[1].newEmails)
    /\ last_email_id["a1"] # NULL /\ last_check["a1"] # NULL

\* C7: after the last post for an agent's new emails the watermark is written
\* whether or not the posts succeeded, and a message of an agent all of whose
\* posts failed in a cycle is never posted again.
C7_FailedNotRetried ==
    [][/\ \A c \in Cycles :
            LET p == poll[c]
            IN  (p.pc = "post" /\ poll'[c] # p /\ p.j = Len(p.newEmails))
                   => /\ last_email_id'[Head(p.agents).id] = p.latestEmail
                      /\ last_check'[Head(p.agents).id] = now
       /\ \A m \in lost : sent'[m] = sent[m]]_vars

\* C8: when the fetch for an agent settles without a new email (it failed, or
\* nothing is new), no post is issued, no watermark column changes, and the
\* loop moves on to the next agent or, after the last one, returns.
C8_FetchFailureIsolated ==
    [][\A c \in Cycles :
         LET p == poll[c]
         IN  (p.pc = "fetch" /\ poll'[c] # p /\ poll'[c].pc # "post")
                => /\ sent' = sent
                   /\ last_email_id' = last_email_id
                   /\ last_check' = last_check
                   /\ MovesOn(c, p)]_vars

\* The fetch for a1 has failed with mail for a1 in the INBOX: nothing was
\* posted for a1, its watermark is unset, and a2 is processed in the same cycle.
C8_Witness ==
    /\ poll[1].fetchErr = {"a1"}
    /\ poll[1].pc = "post"
    /\ Head(poll[1].agents).id = "a2"
    /\ \E m \in 1..Len(mailbox) : mailbox[m].to = "a1" /\ sent[m] = 0
    /\ last_email_id["a1"] = NULL /\ last_check["a1"] = NULL

\* C9: when the fetch for an agent resolves with the list that the agent's
\* fetch of the cycle before resolved with, no post is issued and the agent's
\* last_email_id stays as it is.
C9_RepeatedPollDispatchesNothing ==
    [][\A c \in Cycles :
         LET p == poll[c]
             a == Head(p.agents).id
         IN  (p.pc = "fetch" /\ poll'[c] # p
                /\ fetched[a] # NoFetch /\ fetched'[a] = fetched[a])
                => /\ sent' = sent
                   /\ poll'[c].pc # "post"
                   /\ last_email_id'[a] = last_email_id[a]]_vars

\* C10: whenever a webhook post is issued for a message, the stored
\* webhook_url of the agent it is addressed to is not null.
C10_NoPostAfterRemoval ==
    [][\A m \in MsgIds :
         sent'[m] # sent[m] => webhook_url[mailbox[m].to] # None]_vars

\* ------------------------------------------------- the send path's claims
\* The effective count of agent a on date d, from the stored columns.
Effective(a, d) == IF last_send_date[a] = d THEN sends_today[a] ELSE 0

\* Request r's handler runs in this step (up to its answer or its await).
BeginStep(r) == req[r].phase = "new" /\ req'[r].phase # "new"
\* ... and passes the limit check: sendEmail is called.
Accepted(r) == BeginStep(r) /\ req'[r].phase = "sending"
\* ... and answers 429.
QuotaRejected(r) == BeginStep(r) /\ req'[r].phase = "done" /\ resp'.status = 429
\* A body lacking a required field or naming no template of EMAIL_TEMPLATES.
IllFormed(kind, b) ==
    \/ b.to = None
    \/ kind = "send" /\ (b.subject = None \/ b.body = None)
    \/ kind = "template" /\ b.template_id \notin EMAIL_TEMPLATES
\* What request r, handled in this step, was called with.
Call(r) == IF req'[r].phase = "sending" THEN req'[r] ELSE resp'
\* ... with a malformed body.
Malformed(r) == BeginStep(r) /\ IllFormed(Call(r).kind, Call(r).input)
\* The agent that request r, handled in this step, authenticated as.
BeginAgent(r) == IF Accepted(r) THEN req'[r].agent ELSE resp'.agent
\* Request r's sendEmail call returns in this step and the request is answered.
DoneStep(r) == req[r].phase = "sending" /\ req'[r].phase = "done"

\* C23: a send or send-template request with malformed input (a missing
\* required field, or an unknown template id) is refused in the step that
\* handles it, makes no sendEmail call, and leaves sends_today and
\* last_send_date of every agent unchanged.
C23_MalformedHasNoEffect ==
    [][\A r \in Reqs :
         Malformed(r)
           => /\ req'[r].phase = "done" /\ resp'.status \in {400, 500}
              /\ smtpCalls' = smtpCalls
              /\ sends_today' = sends_today
              /\ last_send_date' = last_send_date]_vars

\* A send-template request naming an unknown template was answered 400 for an
\* agent one send below the limit today, and the row still says so; no
\* request is waiting for sendEmail.
C23_Witness ==
    /\ resp.status = 400 /\ resp.kind = "template"
    /\ resp.input.to # None /\ resp.input.template_id = "nonexistent_template"
    /\ sends_today[resp.agent] = DailyLimit - 1
    /\ last_send_date[resp.agent] = today
    /\ smtpCalls[resp.agent] = DailyLimit - 1
    /\ \A r \in Reqs : req[r].phase = "done"

\* C24: a send request rejected for exceeding the daily limit carries a reset
\* boundary equal to the end (23:59:59 UTC) of the calendar date D that the
\* limit check used: D is the date read by the handler, the stored
\* last_send_date equals D and the stored count has reached the limit.
C24_ResetBoundaryIsCheckedDate ==
    [][\A r \in Reqs :
         QuotaRejected(r)
           => LET D == resp'.resets_at.date
              IN  /\ resp'.resets_at.time = "23:59:59Z"
                  /\ D = today /\ D = resp'.date
                  /\ last_send_date[resp'.agent] = D
                  /\ sends_today[resp'.agent] >= DailyLimit]_vars

\* A request of an agent at the limit was answered 429 with the end of the
\* date of the request as the boundary, and the date has changed since.
C24_Witness ==
    /\ resp.status = 429
    /\ resp.resets_at = [date |-> 1, time |-> "23:59:59Z"]
    /\ resp.date = 1 /\ today = 2
    /\ sends_today[resp.agent] = DailyLimit /\ last_send_date[resp.agent] = 1

\* C25: a send attempt that passed the limit check is counted even when the
\* sendEmail call fails: when the call of a request handled alone returns,
\* with success or with a transport error, the stored sends_today of the
\* agent is the effective count on the date of the request plus one.
C25_CountedEvenOnFailure ==
    [][\A r \in Reqs :
         (DoneStep(r) /\ req[r].solo)
           => sends_today'[req[r].agent]
                = Effective(req[r].agent, req[r].date) + 1]_vars

\* C26: when transporter.sendMail fails with a transport error, the caller of
\* send or send-template is answered with the send failure (500) and never
\* with success (200), and no sends_remaining is reported.
C26_TransportErrorIsSendFailure ==
    [][\A r \in Reqs :
         (DoneStep(r) /\ resp'.transport = "rejected")
           => /\ resp'.status = 500
              /\ resp'.sends_remaining = NoReq.sends_remaining]_vars

\* A send-template request passed the limit check, its transport failed, and
\* it was answered 500.
C26_Witness ==
    /\ resp.phase = "done" /\ resp.kind = "template"
    /\ resp.transport = "rejected" /\ resp.status = 500
    /\ smtpCalls[resp.agent] > 0

\* C1: for every agent and date, the send and send-template operations make
\* at most 10 sendEmail calls for that agent on that date, under every
\* interleaving of its requests.
C1_AtMostLimitCallsPerDay == \A a \in Agents : smtpCalls[a] <= DailyLimit

\* C4 (as claimed): with the requests of an agent handled one at a time, a
\* well-formed request passes the limit check iff the effective count is below
\* 10, and every request that passed it stores sends_today = effective count + 1
\* and last_send_date = the date of the request.
C4_AcceptedAlwaysStores ==
    [][\A r \in Reqs :
         /\ (BeginStep(r) /\ ~Malformed(r) /\ InFlight(BeginAgent(r)) = {})
              => /\ Accepted(r) <=> Effective(BeginAgent(r), today) < DailyLimit
                 /\ QuotaRejected(r) <=> Effective(BeginAgent(r), today) >= DailyLimit
         /\ (DoneStep(r) /\ req[r].solo)
              => /\ sends_today'[req[r].agent] = Effective(req[r].agent, req[r].date) + 1
                 /\ last_send_date'[req[r].agent] = req[r].date]_vars

\* C4 without the attempts whose sendEmail call fails: with the requests of an agent handled one at a time, a
\* well-formed request passes the limit check iff the effective count is below
\* 10 and is answered 429 otherwise, and a request that passed it and whose
\* sendEmail call succeeded stores sends_today = effective count + 1 and
\* last_send_date = the date of the request.
C4_AcceptedIffBelowLimit ==
    [][\A r \in Reqs :
         /\ (BeginStep(r) /\ ~Malformed(r) /\ InFlight(BeginAgent(r)) = {})
              => /\ Accepted(r) <=> Effective(BeginAgent(r), today) < DailyLimit
                 /\ QuotaRejected(r) <=> Effective(BeginAgent(r), today) >= DailyLimit
         /\ (DoneStep(r) /\ req[r].solo /\ resp'.status = 200)
              => /\ sends_today'[req[r].agent] = Effective(req[r].agent, req[r].date) + 1
                 /\ last_send_date'[req[r].agent] = req[r].date]_vars

\* The 10th send of a day, handled alone, has succeeded and stored 10.
C4_Witness ==
    /\ resp.status = 200 /\ resp.solo
    /\ resp.lastSendDate = resp.date /\ resp.sendCount = DailyLimit - 1
    /\ sends_today[resp.agent] = DailyLimit
    /\ last_send_date[resp.agent] = resp.date

\* C5: a well-formed send request made on a date other than the stored
\* last_send_date (or with none stored) passes the limit check whatever the
\* stored sends_today is, and when its sendEmail call succeeds the stored
\* sends_today is 1 and last_send_date is the date of the request.
C5_NewDateResets ==
    [][\A r \in Reqs :
         /\ (BeginStep(r) /\ ~Malformed(r) /\ last_send_date[BeginAgent(r)] # today)
              => Accepted(r)
         /\ (DoneStep(r) /\ resp'.status = 200 /\ req[r].lastSendDate # req[r].date)
              => /\ sends_today'[req[r].agent] = 1
                 /\ last_send_date'[req[r].agent] = req[r].date]_vars

\* A send on a new date succeeded although the stored count was 10.
C5_Witness ==
    /\ resp.status = 200
    /\ resp.sendCount = DailyLimit /\ resp.lastSendDate \notin {NULL, resp.date}
    /\ sends_today[resp.agent] = 1
    /\ last_send_date[resp.agent] = resp.date

\* ------------------------------------------------- the claims on crypto.js
\* The text is well-formed base64 of exactly len bytes: whole groups of four
\* characters, at most two '=' and only at the end, no foreign character.
IsBase64Of(text, len) ==
    /\ text.type = "string" /\ ~text.junk /\ text.pad <= 2
    /\ \E groups \in 0..(text.n + text.pad) :
          /\ text.n + text.pad = 4 * groups
          /\ 3 * groups - text.pad = len
          /\ text.pad > 0 => groups > 0

\* C28: isValidPublicKey returns true if and only if its argument is
\* well-formed base64 that decodes to exactly 32 bytes; for a key of any other
\* length, for text that is not base64 and for null and undefined it returns
\* false, and it never raises.
C28_ValidIffBase64Of32Bytes ==
    call.fn = "isValidPublicKey"
      => /\ ~IsThrown(call.out)
         /\ call.out.ret \in BOOLEAN
         /\ call.out.ret <=> IsBase64Of(call.key, 32)

\* The encoded public key of a keypair was found valid.
C28_Witness ==
    /\ call.fn = "isValidPublicKey"
    /\ call.key = encodeBase64(keyPair("k1").publicKey)
    /\ call.out = Returned(TRUE)

\* C27: for every content P and every recipient keypair (pub, sec), decrypt of
\* what encryptForAgent(P, pub) returned, with the returned nonce and server
\* public key, gives exactly P under sec and throws under the secret key of
\* any other keypair.
C27_EncryptionRoundTrip ==
    \A k \in {"k1", "k2"} :
        (call.fn = "decrypt" /\ call.key = encodeBase64(keyPair(k).publicKey))
          => IF call.secret = k
             THEN ~IsThrown(call.out) /\ call.out.ret = call.content
             ELSE IsThrown(call.out)

\* A content with a two-byte character was encrypted for k1 and decrypted
\* with the secret key of k1.
C27_Witness ==
    /\ call.fn = "decrypt"
    /\ call.key = encodeBase64(keyPair("k1").publicKey) /\ call.secret = "k1"
    /\ call.content = <<233, 97>>
    /\ call.out = Returned(<<233, 97>>)

\* C29: encryptForAgent called with a recipient key that is not valid base64
\* or does not decode to 32 bytes throws 'Failed to encrypt content: ...': it
\* returns no ciphertext object and never the content.
C29_InvalidKeyFailsEncryption ==
    (call.fn = "encryptForAgent" /\ ~IsBase64Of(call.key, 32))
      => /\ IsThrown(call.out)
         /\ call.out.thrown[1] = "Failed to encrypt content: "

\* Encryption of a non-empty content for a well-formed 16-byte key threw.
C29_Witness ==
    /\ call.fn = "encryptForAgent"
    /\ call.key.type = "string" /\ call.key.n = 22 /\ call.key.pad = 2
    /\ ~call.key.junk /\ call.content # <<>>
    /\ call.out = Thrown(<<"Failed to encrypt content: ", "bad public key size">>)

C31_DispatchedAreTheNewOnes ==
    [][LET p == poll[1]
           a == Head(p.agents).id
           due(emails) == SelectSeq(emails, LAMBDA e :
                             \/ last_email_id[a] = NULL
                             \/ /\ e.id # last_email_id[a]
                                /\ e.received_at > last_check[a])
       IN  /\ (p.pc = "fetch" /\ poll'[1] # p /\ a \notin poll'[1].fetchErr)
                => IF poll'[1].pc = "post" /\ poll'[1].agents = p.agents
                   THEN \E emails \in fetchEmails(a, PollLimit, now) :
                           /\ due(emails) # <<>>
                           /\ poll'[1].newEmails = due(emails) /\ poll'[1].j = 1
                           /\ poll'[1].latestEmail = emails[1].id
                           /\ sent' = [sent EXCEPT ![due(emails)[1].id] = Min(@ + 1, 2)]
                   ELSE \* the list was empty, or none of its messages is due
                        sent' = sent /\ poll'[1] = NextAgent(p)
           /\ (p.pc = "post" /\ poll'[1] # p)
                => IF p.j < Len(p.newEmails)
                   THEN /\ poll'[1].newEmails = p.newEmails
                        /\ poll'[1].latestEmail = p.latestEmail
                        /\ poll'[1].j = p.j + 1
                        /\ sent' = [sent EXCEPT ![p.newEmails[p.j + 1].id] =
                                       Min(@ + 1, 2)]
                   ELSE /\ sent' = sent
                        /\ last_email_id'[a] = p.latestEmail]_vars

\* With last_email_id 1 and messages 1 and 2 in the mailbox, message 2 later
\* than last_check, the fetched list began with 2: message 2 alone is being
\* posted, message 1 having been posted once in the cycle before.
C31_Witness ==
    /\ poll[1].pc = "post" /\ Head(poll[1].agents).id = "a1"
    /\ last_email_id["a1"] = 1 /\ last_check["a1"] = 1
    /\ mailbox = <<[to |-> "a1", date |-> 1], [to |-> "a1", date |-> 2]>>
    /\ poll[1].latestEmail = 2
    /\ poll[1].newEmails = <<[id |-> 2, received_at |-> 2]>>
    /\ sent = (1 :> 1 @@ 2 :> 1)

\* C32: when the processing of an agent whose fetch resolved with a non-empty
\* list ends, last_email_id is the id of the first message of the list and
\* last_check is the time of the cycle, also when no message was new.
C32_WatermarkAdvancesEveryCycle ==
    [][LET p == poll[1]
           a == Head(p.agents).id
       IN  /\ (p.pc = "fetch" /\ poll'[1] # p /\ poll'[1].pc # "post"
                 /\ fetched'[a] # NoFetch /\ fetched'[a] # <<>>)
                => /\ last_email_id'[a] = fetched'[a][1].id
                   /\ last_check'[a] = now
           /\ (p.pc = "post" /\ poll'[1] # p /\ p.j = Len(p.newEmails))
                => /\ last_email_id'[a] = fetched[a][1].id
                   /\ last_check'[a] = now]_vars

\* ------------------------------------------ the writers of the agent row
\* C33: sends_today and last_send_date change only in the step in which the
\* sendEmail call of an accepted request returns with success, and then only
\* for the agent of that request; a request answered 429 makes no sendEmail
\* call and writes nothing, and a change of the date leaves both columns
\* as they are.
C33_QuotaWrittenOnlyBySuccessfulSend ==
    [][/\ \A a \in Agents :
            (sends_today'[a] # sends_today[a] \/ last_send_date'[a] # last_send_date[a])
               => \E r \in Reqs :
                     /\ DoneStep(r) /\ req[r].agent = a
                     /\ resp'.transport = "resolved" /\ resp'.status = 200
       /\ \A r \in Reqs :
            QuotaRejected(r)
               => /\ smtpCalls' = smtpCalls
                  /\ sends_today' = sends_today
                  /\ last_send_date' = last_send_date
       /\ today' # today
            => sends_today' = sends_today /\ last_send_date' = last_send_date]_vars

\* The date has changed since a request was answered 429: the row of its
\* agent still holds the count 10 of the day before.
C33_Witness ==
    /\ resp.status = 429 /\ today > resp.date
    /\ sends_today[resp.agent] = DailyLimit
    /\ last_send_date[resp.agent] = resp.date

\* C34: sends_today and last_send_date of an agent change only in the step
\* in which a sendEmail call of a send or send-template request of that agent
\* returns, and its last_email_id and last_check only in the step that ends
\* the posts of a poll cycle for that agent; the reads of the mailbox, the
\* webhook routes, the payment routes and the steps of the other agent leave
\* them as they are.
C34_SingleWriter ==
    [][\A a \in Agents :
         /\ (sends_today'[a] # sends_today[a] \/ last_send_date'[a] # last_send_date[a])
              => \E r \in Reqs : DoneStep(r) /\ req[r].agent = a
         /\ (last_email_id'[a] # last_email_id[a] \/ last_check'[a] # last_check[a])
              => /\ poll[1].pc = "post" /\ poll'[1] # poll[1]
                 /\ Head(poll[1].agents).id = a
                 /\ poll[1].j = Len(poll[1].newEmails)]_vars

\* A poll cycle has posted message 2 for a1 and moved its watermark; the
\* watermark of a2 and the quota columns of both agents are as before.
C34_Witness ==
    /\ last_email_id["a1"] = 2 /\ last_check["a1"] = 2
    /\ last_email_id["a2"] = NULL /\ last_check["a2"] = NULL
    /\ \A a \in Agents : sends_today[a] = 1 /\ last_send_date[a] = 1

\* C35: at most one call of pollWebhooks is in progress at any time, and no
\* message is posted by two calls that are in progress at the same time.
C35_OneCycleAtATime ==
    \A c, d \in Cycles :
        c # d => /\ poll[c].pc = "idle" \/ poll[d].pc = "idle"
                 /\ ~ /\ poll[c].pc = "post" /\ poll[d].pc = "post"
                       /\ poll[c].newEmails[poll[c].j].id = poll[d].newEmails[poll[d].j].id

\* C36: a call of pollWebhooks starts with the rows of all agents that have
\* a webhook, each once; every step of it, whatever fails, keeps the agent that
\* is being processed, goes on to the next row, or, after the last row,
\* returns; and every call returns.
C36_CycleCompletes ==
    /\ [][LET p == poll[1]
              q == poll'[1]
          IN  /\ (p.pc = "idle" /\ q.pc # "idle")
                   => /\ q.agents = SelectAgents
                      /\ \A i, k \in 1..Len(q.agents) :
                            i # k => q.agents[i].id # q.agents[k].id
              /\ (p.pc # "idle" /\ q # p)
                   => \/ q.pc = "post" /\ q.agents = p.agents
                      \/ /\ p.pc = "fetch" \/ p.j = Len(p.newEmails)
                         /\ Len(p.agents) > 1
                         /\ q.pc = "fetch" /\ q.agents = Tail(p.agents)
                      \/ /\ p.pc = "fetch" \/ p.j = Len(p.newEmails)
                         /\ Len(p.agents) = 1
                         /\ q = NoPoll]_vars
    /\ (poll[1].pc # "idle") ~> (poll[1].pc = "idle")

\* The fetch for a1 has failed and a post for a2 has failed: the call is at
\* the last post of a2, the last row.
C36_Witness ==
    /\ poll[1].pc = "post" /\ poll[1].fetchErr = {"a1"} /\ poll[1].failed = {"a2"}
    /\ Len(poll[1].agents) = 1 /\ Head(poll[1].agents).id = "a2"
    /\ poll[1].j = Len(poll[1].newEmails)

\* C37: in every state, also with several requests of an agent in flight,
\* the stored sends_today of each agent is an integer from 0 to 10, and the
\* sends_remaining of a send answered 200 is from 0 to 9.
C37_CountWithinLimit ==
    /\ \A a \in Agents : sends_today[a] \in 0..DailyLimit
    /\ resp.status = 200 => resp.sends_remaining \in 0..(DailyLimit - 1)

\* Two requests of an agent were in flight together at the 10th send of the
\* day: the answer reports 0 sends remaining and the row holds 10.
C37_Witness ==
    /\ resp.status = 200 /\ ~resp.solo
    /\ resp.sends_remaining = 0
    /\ sends_today[resp.agent] = DailyLimit
    /\ \A r \in Reqs : req[r].phase = "done"

\* C38: the server keypair is generated at most once: once serverKeyPair is
\* set no call changes it, only a call of encryptForAgent that reaches
\* getServerKeyPair sets it, and every call of encryptForAgent that returns,
\* returns the public key of that one pair, the same as the call before it.
C38_ServerKeyPairCreatedOnce ==
    [][/\ serverKeyPair # <<>> => serverKeyPair' = serverKeyPair
       /\ serverKeyPair' # serverKeyPair
            => call'.fn = "encryptForAgent" /\ ~IsThrown(decodeBase64(call'.key))
       /\ (call'.fn = "encryptForAgent" /\ ~IsThrown(call'.out))
            => /\ serverKeyPair' # <<>>
               /\ call'.out.ret.serverPublicKey =
                     encodeBase64(serverKeyPair'[1].publicKey)
               /\ (call.fn = "encryptForAgent" /\ ~IsThrown(call.out))
                    => call'.out.ret.serverPublicKey = call.out.ret.serverPublicKey]_vars

\* A second call of encryptForAgent has returned the public key of the pair
\* that the first call generated.
C38_Witness ==
    /\ call.fn = "encryptForAgent" /\ call.calls = 2
    /\ ~IsThrown(call.out)
    /\ serverKeyPair = <<keyPair("srv")>>
    /\ call.out.ret.serverPublicKey = encodeBase64(keyPair("srv").publicKey)

\* C39: a create-paid request whose reference is verified, is not marked used
\* and has created no mailbox yet inserts an agent row of its own and marks the
\* reference used, whatever other references have been used before (unless
\* the mailbox id or the API key drawn for it is taken, which INSERT refuses).
C39_VerifiedReferenceCreates ==
    [][\A q \in BagToSet(inflight) :
         (Settles(q) /\ q.op = "create-paid" /\ reply'.outcome = "verified"
            /\ SelectPayment(q.ref).used = 0 /\ CopiesIn(q.ref, created) = 0)
           => \/ /\ reply'.status = 200
                 /\ \E row \in agentRows' \ agentRows :
                       row.moltbook_id = SolanaId(q.ref)
                 /\ q.ref \in DOMAIN payments => payments'[q.ref].used = 1
              \/ /\ reply'.status = 500 /\ agentRows' = agentRows
                 /\ \A r \in agentRows : r.moltbook_id # SolanaId(q.ref)]_vars

====
